---- MODULE Spec2Model ----
(***************************************************************************)
(* clean-builds: detection of build-artifact directories (scanner.rs,      *)
(* rules.rs), include/exclude filtering (filter.rs), size computation      *)
(* (size.rs) and the run of main (main.rs, delete.rs), as a state machine  *)
(* over a small file system.                                               *)
(*                                                                         *)
(* A path is a sequence of component names; <<>> is "/".  A file system is *)
(* a function from the paths that exist to entries                         *)
(*   [kind : "dir" | "file" | "symlink", len : Nat, ok : BOOLEAN]          *)
(* where len is a regular file's byte length and ok says that reading the  *)
(* entry succeeds (read_dir of a directory, metadata of a file, the target *)
(* of a symbolic link).                                                    *)
(***************************************************************************)
EXTENDS Naturals, Integers, Sequences, FiniteSets, TLC

VARIABLES
    fs,         \* the file system
    root,       \* the canonical scan root (main.rs:27)
    cli,        \* the parsed command line (cli.rs:10)
    pc,         \* position of main
    filter,     \* Result<ArtifactFilter, PatternError> of ArtifactFilter::new
    stack,      \* walkdir's stack of open directories: [dir, rest]
    pruned,     \* scan: paths already recorded as artifacts
    artifacts,  \* the artifact list held by the current stage
    scanned,    \* history: the list scan returned
    kept,       \* history: the list filter.apply returned
    sizes,      \* compute_sizes: results of the per-artifact tasks
    probe,      \* a relative path handed to ArtifactFilter::matches
    verdict,    \* what matches answered for probe
    out,        \* the lines written to stdout and stderr, in order
    results,    \* confirm_and_delete: results of the per-artifact removals
    removed,    \* history: the paths removed from the file system
    running,    \* compute_sizes: the tasks that hold a worker of the pool
    earlier,    \* history: what the first of two scans returned
    response,   \* confirm_and_delete: the result of read_line, if it was called
    returned    \* confirm_and_delete: the value it returned

vars == <<fs, root, cli, pc, filter, stack, pruned, artifacts, scanned, kept,
          sizes, probe, verdict, out, results, removed, running, earlier, response,
          returned>>

(***************************************************************************)
(* Option and Result values.                                               *)
(***************************************************************************)
None == [some |-> FALSE]
Some(v) == [some |-> TRUE, val |-> v]

(***************************************************************************)
(* std::path::Path on sequences of components.                             *)
(***************************************************************************)
parent(path) == IF path = <<>> THEN None ELSE Some(SubSeq(path, 1, Len(path) - 1))

file_name(path) == IF path = <<>> THEN None ELSE Some(path[Len(path)])

join(path, name) == Append(path, name)

starts_with(path, base) ==
    /\ Len(base) <= Len(path)
    /\ SubSeq(path, 1, Len(base)) = base

strip_prefix(path, base) ==
    IF starts_with(path, base)
    THEN Some(SubSeq(path, Len(base) + 1, Len(path)))
    ELSE None

\* str::ends_with
ends_with(s, suffix) ==
    /\ Len(suffix) <= Len(s)
    /\ SubSeq(s, Len(s) - Len(suffix) + 1, Len(s)) = suffix

(***************************************************************************)
(* The file system as the program observes it.                             *)
(***************************************************************************)
IsDir(f, p) == p = <<>> \/ (p \in DOMAIN f /\ f[p].kind = "dir")

\* Path::exists: follows symbolic links, false for a dangling link.
exists(f, p) ==
    \/ p = <<>>
    \/ /\ p \in DOMAIN f
       /\ (f[p].kind = "symlink" => f[p].ok)

Children(f, p) == {c \in DOMAIN f : c # <<>> /\ SubSeq(c, 1, Len(c) - 1) = p}

\* std::fs::read_dir: the entries of a readable directory, or an error.
read_dir(f, p) ==
    IF IsDir(f, p) /\ (p = <<>> \/ f[p].ok) THEN Some(Children(f, p)) ELSE None

(***************************************************************************)
(* Symbolic links.  A link entry may record the directory it points to, as *)
(* a canonical path in the field `to`.  The operating system follows the   *)
(* links in every component of a path but the last; whether the last one   *)
(* is followed depends on the call (symlink_metadata does not, metadata    *)
(* and read_dir do).                                                       *)
(***************************************************************************)
link_target(f, p) ==
    IF p \in DOMAIN f /\ f[p].kind = "symlink" /\ "to" \in DOMAIN f[p]
    THEN Some(f[p].to)
    ELSE None

follow(f, p) == IF link_target(f, p).some THEN link_target(f, p).val ELSE p

\* std::fs::canonicalize of a path that exists: every link followed.  A
\* path that is itself an entry of the tree has no link above it (only
\* directories hold entries), so that only its last component may be one.
RECURSIVE canonical(_, _)
canonical(f, path) ==
    IF path = <<>> THEN <<>>
    ELSE IF path \in DOMAIN f THEN follow(f, path)
    ELSE LET above == {canonical(f, parent(path).val)} IN
         CHOOSE p \in {follow(f, join(q, path[Len(path)])) : q \in above} : TRUE

\* std::fs::symlink_metadata: the entry a path names, its last component not
\* followed.
symlink_metadata(f, path) ==
    IF path \in DOMAIN f THEN f[path]
    ELSE f[join(canonical(f, parent(path).val), path[Len(path)])]

\* std::fs::metadata: the entry a path leads to, every link followed.
metadata(f, path) == f[canonical(f, path)]

\* The entries ReadDir yields for a directory opened as `path`: each is
\* named by `path` joined with its file name.
dir_entries(f, path) == {join(path, c[Len(c)]) : c \in Children(f, canonical(f, path))}

(***************************************************************************)
(* rules.rs: the rule catalog.                                             *)
(***************************************************************************)
Files(names) == [kind |-> "Files", names |-> names, suffix |-> ""]
GlobSuffix(suffix) == [kind |-> "GlobSuffix", names |-> <<>>, suffix |-> suffix]
Always == [kind |-> "Always", names |-> <<>>, suffix |-> ""]

Exact(name) == [kind |-> "Exact", s |-> name]
Suffix(suffix) == [kind |-> "Suffix", s |-> suffix]

MatchableRule(build_system, artifact_dir, marker, dir_match) ==
    [rule |-> [build_system |-> build_system, artifact_dir |-> artifact_dir,
               marker |-> marker],
     dir_match |-> dir_match]

mr(build_system, artifact_dir, markers) ==
    MatchableRule(build_system, artifact_dir, Files(markers), Exact(artifact_dir))

mr_multi(build_system, artifact_dir, markers) == mr(build_system, artifact_dir, markers)

PyMarkers == <<"pyproject.toml", "setup.py", "requirements.txt">>

\* A catalog in which a rule with no marker stands before the rules that
\* confirm the same directory name by a marker.
all_rules_catch_all_first ==
    << MatchableRule("Python", "build", Always, Exact("build")),
       mr_multi("Android/Gradle", "build", <<"build.gradle", "build.gradle.kts">>),
       mr("C/C++/CMake", "build", <<"CMakeLists.txt">>),
       MatchableRule("Python", "__pycache__", Always, Exact("__pycache__")) >>

all_rules ==
    << mr("Java/Maven", "target", <<"pom.xml">>),
       mr("Rust/Cargo", "target", <<"Cargo.toml">>),
       mr("Scala/SBT", "target", <<"build.sbt">>),
       mr("Node.js", "node_modules", <<"package.json">>),
       mr("Node.js", ".next", <<"package.json">>),
       mr("Node.js", ".nuxt", <<"package.json">>),
       mr("Node.js", ".output", <<"package.json">>),
       mr("Swift/SPM", ".build", <<"Package.swift">>),
       MatchableRule("Python", "__pycache__", Always, Exact("__pycache__")),
       MatchableRule("Python", ".mypy_cache", Always, Exact(".mypy_cache")),
       MatchableRule("Python", ".pytest_cache", Always, Exact(".pytest_cache")),
       mr_multi("Python", ".venv", PyMarkers),
       mr_multi("Python", "venv", PyMarkers),
       mr_multi("Python", ".tox", PyMarkers),
       MatchableRule("Python", "*.egg-info", Files(PyMarkers), Suffix(".egg-info")),
       mr_multi("Android/Gradle", "build", <<"build.gradle", "build.gradle.kts">>),
       mr_multi("Android/Gradle", ".gradle", <<"build.gradle", "build.gradle.kts">>),
       mr("C/C++/CMake", "build", <<"CMakeLists.txt">>),
       mr("C/C++/CMake", "CMakeFiles", <<"CMakeLists.txt">>),
       MatchableRule(".NET/C#", "bin", GlobSuffix(".csproj"), Exact("bin")),
       MatchableRule(".NET/C#", "obj", GlobSuffix(".csproj"), Exact("obj")),
       MatchableRule(".NET/C#", "bin", GlobSuffix(".sln"), Exact("bin")),
       MatchableRule(".NET/C#", "obj", GlobSuffix(".sln"), Exact("obj")),
       mr("Elixir/Mix", "_build", <<"mix.exs">>),
       mr("Elixir/Mix", "deps", <<"mix.exs">>),
       mr("Haskell/Stack", ".stack-work", <<"stack.yaml">>),
       MatchableRule("Haskell/Cabal", "dist-newstyle", GlobSuffix(".cabal"),
                     Exact("dist-newstyle")),
       mr("Dart/Flutter", ".dart_tool", <<"pubspec.yaml">>),
       mr("Dart/Flutter", "build", <<"pubspec.yaml">>),
       mr("Zig", "zig-out", <<"build.zig">>),
       mr("Zig", "zig-cache", <<"build.zig">>),
       mr("PHP/Composer", "vendor", <<"composer.json">>),
       mr("CocoaPods", "Pods", <<"Podfile">>),
       mr("Ruby/Bundler", "bundle", <<"Gemfile">>) >>

has_marker_ignored(f, dir, marker) == exists(f, dir)

has_marker(f, dir, marker) ==
    CASE marker.kind = "Always" -> TRUE
      [] marker.kind = "Files" ->
            \E i \in 1..Len(marker.names) : exists(f, join(dir, marker.names[i]))
      [] marker.kind = "GlobSuffix" ->
            LET entries == read_dir(f, dir) IN
            IF ~entries.some THEN FALSE
            ELSE \E e \in entries.val : ends_with(e[Len(e)], marker.suffix)

matches_dir(dir_name, dir_match) ==
    CASE dir_match.kind = "Exact" -> dir_name = dir_match.s
      [] dir_match.kind = "Suffix" -> ends_with(dir_name, dir_match.s)

(***************************************************************************)
(* scanner.rs                                                              *)
(***************************************************************************)
Artifact(path, build_system, artifact_dir, size_bytes) ==
    [path |-> path, build_system |-> build_system, artifact_dir |-> artifact_dir,
     size_bytes |-> size_bytes]

\* The Ruby/Bundler special case of try_match (scanner.rs:84-99): what the
\* loop does for a rule whose directory name matched.
bundler_case_parent(f, par, marker) ==
    IF has_marker(f, par, marker) THEN "return_some" ELSE "continue"

bundler_case(f, par, marker) ==
    IF file_name(par) # Some("vendor") THEN "continue"
    ELSE IF ~parent(par).some THEN "return_none"
    ELSE IF ~has_marker(f, parent(par).val, marker) THEN "continue"
    ELSE "return_some"

RECURSIVE try_rules(_, _, _, _, _)
try_rules(f, path, dir_name, rules, i) ==
    IF i > Len(rules) THEN None
    ELSE
      LET m == rules[i]
          par == parent(path).val
          hit == Some(Artifact(path, m.rule.build_system, m.rule.artifact_dir, 0))
      IN
      IF ~matches_dir(dir_name, m.dir_match) THEN try_rules(f, path, dir_name, rules, i + 1)
      ELSE IF m.rule.build_system = "Ruby/Bundler" THEN
             LET b == bundler_case(f, par, m.rule.marker) IN
             IF b = "return_some" THEN hit
             ELSE IF b = "return_none" THEN None
             ELSE try_rules(f, path, dir_name, rules, i + 1)
      ELSE IF has_marker(f, par, m.rule.marker) THEN hit
      ELSE try_rules(f, path, dir_name, rules, i + 1)

RECURSIVE try_rules_last(_, _, _, _, _)
try_rules_last(f, path, dir_name, rules, i) ==
    IF i > Len(rules) THEN None
    ELSE
      LET later == try_rules_last(f, path, dir_name, rules, i + 1)
          here == try_rules(f, path, dir_name, <<rules[i]>>, 1)
      IN IF later.some THEN later ELSE here

try_match_last_wins(f, path, dir_name, rules) ==
    IF ~parent(path).some THEN None ELSE try_rules_last(f, path, dir_name, rules, 1)

try_match(f, path, dir_name, rules) ==
    IF ~parent(path).some THEN None ELSE try_rules(f, path, dir_name, rules, 1)

under_pruned_exact(prunedPaths, path) ==
    \E i \in 1..Len(prunedPaths) : path = prunedPaths[i]

under_pruned(prunedPaths, path) ==
    \E i \in 1..Len(prunedPaths) : starts_with(path, prunedPaths[i])

\* DirEntry::file_type of an entry of the walker.  With follow_links(false)
\* (scanner.rs:25) walkdir takes it from symlink_metadata, so that a link is
\* a link whatever it points to.
file_type_of_target(f, path) == metadata(f, path).kind

file_type(f, path) == symlink_metadata(f, path).kind

\* The predicate handed to filter_entry.
filter_entry_accepts_all(f, path) == TRUE

filter_entry(f, path) ==
    IF file_type(f, path) # "dir" THEN TRUE
    ELSE IF path = <<>> THEN TRUE
    ELSE path[Len(path)] # ".git"

\* The body of the for loop over the walker's entries: [pruned, artifacts].
visit_first_only(f, path, prunedPaths, found) ==
    LET same == [pruned |-> prunedPaths, artifacts |-> found] IN
    IF file_type(f, path) # "dir" \/ found # <<>> THEN same
    ELSE IF ~file_name(path).some THEN same
    ELSE LET m == try_match(f, path, file_name(path).val, all_rules) IN
         IF m.some
         THEN [pruned |-> Append(prunedPaths, path), artifacts |-> Append(found, m.val)]
         ELSE same

visit(f, path, prunedPaths, found) ==
    LET same == [pruned |-> prunedPaths, artifacts |-> found] IN
    IF file_type(f, path) # "dir" THEN same
    ELSE IF under_pruned(prunedPaths, path) THEN same
    ELSE IF ~file_name(path).some THEN same
    ELSE LET m == try_match(f, path, file_name(path).val, all_rules) IN
         IF m.some
         THEN [pruned |-> Append(prunedPaths, path), artifacts |-> Append(found, m.val)]
         ELSE same

(***************************************************************************)
(* The walk of scan (scanner.rs:24-68).  walkdir yields the root, then the *)
(* entries of every directory it opens, depth first, in the order read_dir *)
(* returns them, which is unspecified: any unvisited entry of the          *)
(* directory on top of the stack may come next.  Symbolic links are not    *)
(* opened (follow_links(false)); a directory rejected by filter_entry is   *)
(* neither yielded nor opened; a directory that cannot be read is yielded  *)
(* and then gives an Err, which the loop skips.                            *)
(***************************************************************************)
RECURSIVE pop_done(_)
pop_done(st) ==
    IF st # <<>> /\ st[Len(st)].rest = {} THEN pop_done(SubSeq(st, 1, Len(st) - 1))
    ELSE st

open_dir_abort_on_error(f, st, path) ==
    IF file_type(f, path) = "dir" /\ ~metadata(f, path).ok THEN <<>>
    ELSE IF file_type(f, path) = "dir"
    THEN Append(st, [dir |-> path, rest |-> dir_entries(f, path)])
    ELSE st

\* walkdir opens an entry whose file type is a directory; read_dir of it
\* may fail.
open_dir(f, st, path) ==
    IF file_type(f, path) = "dir" /\ metadata(f, path).ok
    THEN Append(st, [dir |-> path, rest |-> dir_entries(f, path)])
    ELSE st

\* One entry produced by the walker: the new [stack, pruned, artifacts].
walk_entry_leaves_dir(f, st, path, prunedPaths, found) ==
    IF ~filter_entry(f, path)
    THEN [stack |-> pop_done(st), pruned |-> prunedPaths, artifacts |-> found]
    ELSE LET v == visit(f, path, prunedPaths, found) IN
         [stack |-> IF v.artifacts # found /\ st # <<>>
                    THEN pop_done(SubSeq(st, 1, Len(st) - 1))
                    ELSE pop_done(open_dir(f, st, path)),
          pruned |-> v.pruned, artifacts |-> v.artifacts]

walk_entry(f, st, path, prunedPaths, found) ==
    IF ~filter_entry(f, path)
    THEN [stack |-> pop_done(st), pruned |-> prunedPaths, artifacts |-> found]
    ELSE LET v == visit(f, path, prunedPaths, found) IN
         [stack |-> pop_done(open_dir(f, st, path)),
          pruned |-> v.pruned, artifacts |-> v.artifacts]

ScanFrame ==
    UNCHANGED <<fs, root, cli, filter, kept, sizes, probe, verdict, out, results, removed,
                running, earlier, response, returned>>

\* The first entry of WalkDir::new(root): the root itself, handed to
\* filter_entry and to the loop as every other entry is, with nothing open
\* and nothing recorded yet.
root_entry_not_yielded(f, rootPath) ==
    [stack |-> pop_done(open_dir(f, <<>>, rootPath)), pruned |-> <<>>, artifacts |-> <<>>]

root_entry(f, rootPath) == walk_entry(f, <<>>, rootPath, <<>>, <<>>)

\* scan(root): the walker's first entry is the root itself.
ScanBegin ==
    /\ pc = "scan"
    /\ LET r == root_entry(fs, root) IN
         /\ stack' = r.stack
         /\ pruned' = r.pruned
         /\ artifacts' = r.artifacts
    /\ pc' = "walk"
    /\ scanned' = scanned
    /\ ScanFrame

ScanEntry ==
    /\ pc = "walk"
    /\ stack # <<>>
    /\ \E path \in stack[Len(stack)].rest :
         LET top == stack[Len(stack)]
             st == [stack EXCEPT ![Len(stack)] = [top EXCEPT !.rest = top.rest \ {path}]]
             r == walk_entry(fs, st, path, pruned, artifacts)
         IN /\ stack' = r.stack
            /\ pruned' = r.pruned
            /\ artifacts' = r.artifacts
    /\ UNCHANGED <<pc, scanned>>
    /\ ScanFrame

\* The walker is exhausted: scan returns the artifact list.
ScanEnd ==
    /\ pc = "walk"
    /\ stack = <<>>
    /\ scanned' = artifacts
    /\ pc' = "apply"
    /\ UNCHANGED <<stack, pruned, artifacts>>
    /\ ScanFrame

(***************************************************************************)
(* Bounded file systems.  A layout is a set of candidate entries, each     *)
(* with the kinds it may take; a tree is the root directory W plus a       *)
(* parent-closed choice of at most MaxEntries candidates.                  *)
(***************************************************************************)
MaxEntries == 5

W == <<"w">>

Entry(kind, len, ok) == [kind |-> kind, len |-> len, ok |-> ok]

\* A candidate entry of a layout: its path and the entries it may be.
Cand(path, entries) == [path |-> path, entries |-> entries]

D == {Entry("dir", 0, TRUE)}
DL == {Entry("dir", 0, TRUE), Entry("symlink", 0, TRUE)}
FD == {Entry("file", 1, TRUE), Entry("dir", 0, TRUE)}

LayoutTarget ==
    { Cand(<<"w", "pom.xml">>, FD), Cand(<<"w", "Cargo.toml">>, FD),
      Cand(<<"w", "target">>, DL), Cand(<<"w", "target", "target">>, D),
      Cand(<<"w", "target", "Cargo.toml">>, FD), Cand(<<"w", "build.sbt">>, FD) }

LayoutBuild ==
    { Cand(<<"w", "build">>, DL), Cand(<<"w", "build.gradle">>, FD),
      Cand(<<"w", "CMakeLists.txt">>, FD), Cand(<<"w", "pubspec.yaml">>, FD),
      Cand(<<"w", ".venv">>, DL), Cand(<<"w", "setup.py">>, FD) }

LayoutRuby ==
    { Cand(<<"w", "Gemfile">>, FD), Cand(<<"w", "composer.json">>, FD),
      Cand(<<"w", "vendor">>, D), Cand(<<"w", "vendor", "bundle">>, DL),
      Cand(<<"w", "vendor", "Gemfile">>, FD),
      Cand(<<"w", "lib">>, D), Cand(<<"w", "lib", "bundle">>, D),
      Cand(<<"w", "bundle">>, D) }

LayoutRubyGit ==
    { Cand(<<"w", ".git">>, D), Cand(<<"w", ".git", "Gemfile">>, FD),
      Cand(<<"w", ".git", "vendor">>, D), Cand(<<"w", ".git", "vendor", "bundle">>, D),
      Cand(<<"w", "Gemfile">>, FD) }

LayoutNested ==
    { Cand(<<"w", "package.json">>, FD), Cand(<<"w", "node_modules">>, DL),
      Cand(<<"w", "node_modules", "package.json">>, FD),
      Cand(<<"w", "node_modules", "node_modules">>, D),
      Cand(<<"w", ".git">>, D), Cand(<<"w", ".git", "__pycache__">>, D),
      Cand(<<"w", "__pycache__">>, D), Cand(<<"w", "__pycache__", "__pycache__">>, D) }

LayoutSuffix ==
    { Cand(<<"w", "App.csproj">>, FD), Cand(<<"w", "x.sln">>, FD),
      Cand(<<"w", "bin">>, D), Cand(<<"w", "obj">>, D),
      Cand(<<"w", "lib.egg-info">>, D), Cand(<<"w", "setup.py">>, FD),
      Cand(<<"w", "dist-newstyle">>, D), Cand(<<"w", ".cabal">>, FD) }

\* A directory that read_dir succeeds on, or fails on (permission denied,
\* or removed before the walker opens it).
DU == {Entry("dir", 0, TRUE), Entry("dir", 0, FALSE)}

LayoutUnreadable ==
    { Cand(<<"w", "app">>, DU), Cand(<<"w", "app", "package.json">>, FD),
      Cand(<<"w", "app", "node_modules">>, D),
      Cand(<<"w", "mix.exs">>, FD), Cand(<<"w", "_build">>, DU),
      Cand(<<"w", "deps">>, DU), Cand(<<"w", "deps", "__pycache__">>, D) }

ScanLayouts ==
    {LayoutTarget, LayoutBuild, LayoutRuby, LayoutRubyGit, LayoutNested, LayoutSuffix,
     LayoutUnreadable}

ClosedChoices(layout, n) ==
    {s \in SUBSET layout :
       /\ Cardinality(s) <= n
       /\ \A c \in s : Len(c.path) > Len(W) + 1 =>
            \E d \in s : d.path = SubSeq(c.path, 1, Len(c.path) - 1)}

\* Every way to give each chosen candidate one of its entries.
RECURSIVE Assignments(_)
Assignments(chosen) ==
    IF chosen = {} THEN {(W :> Entry("dir", 0, TRUE))}
    ELSE LET c == CHOOSE x \in chosen : TRUE IN
         {(c.path :> e) @@ f : e \in c.entries, f \in Assignments(chosen \ {c})}

\* The trees of a layout with at most n entries beside the root: the choice
\* is closed under parent and an entry that has children is a directory.
TreesOf(layout, n) ==
    UNION { { f \in Assignments(chosen) :
                \A p \in DOMAIN f : Children(f, p) # {} => f[p].kind = "dir" } :
            chosen \in ClosedChoices(layout, n) }

ScanTrees == UNION {TreesOf(layout, MaxEntries) : layout \in ScanLayouts}

Cli(path, delete, yes, include, exclude) ==
    [path |-> path, delete |-> delete, yes |-> yes, include |-> include, exclude |-> exclude]

NoCli == Cli(W, FALSE, FALSE, <<>>, <<>>)

\* The directories scan may be called on: the top of the tree or a
\* directory right beneath it.
ScanRoots(f) == {W} \cup {p \in DOMAIN f : Len(p) = Len(W) + 1 /\ f[p].kind = "dir"}

\* scan(root) called on a tree, as scanner.rs's tests call it.
InitScan ==
    /\ fs \in ScanTrees
    /\ root \in ScanRoots(fs)
    /\ cli = NoCli
    /\ pc = "scan"
    /\ filter = None
    /\ stack = <<>>
    /\ pruned = <<>>
    /\ artifacts = <<>>
    /\ scanned = <<>>
    /\ kept = <<>>
    /\ sizes = <<>>
    /\ probe = ""
    /\ verdict = FALSE
    /\ out = <<>>
    /\ results = <<>>
    /\ removed = {}
    /\ running = {}
    /\ earlier = None
    /\ response = None
    /\ returned = None

NextScan == ScanBegin \/ ScanEntry \/ ScanEnd

SpecScan == InitScan /\ [][NextScan]_vars

(***************************************************************************)
(* scan(root) called a second time on the tree the first call left.        *)
(***************************************************************************)
\* The caller keeps what scan returned and calls scan(root) again: the new
\* call starts from empty lists.
ScanAgain ==
    /\ pc = "apply"
    /\ ~earlier.some
    /\ earlier' = Some(artifacts)
    /\ pc' = "scan"
    /\ stack' = <<>>
    /\ pruned' = <<>>
    /\ artifacts' = <<>>
    /\ UNCHANGED <<fs, root, cli, filter, scanned, kept, sizes, probe, verdict, out,
                   results, removed, running, response, returned>>

NextRescan == NextScan \/ ScanAgain

\* The trees scanned twice: those in which a directory holds several
\* artifacts, nested ones, or entries that cannot be read.
RescanTrees ==
    UNION {TreesOf(layout, MaxEntries) :
             layout \in {LayoutNested, LayoutUnreadable}}

InitRescan == InitScan /\ fs \in RescanTrees

SpecRescan == InitRescan /\ [][NextRescan]_vars

(***************************************************************************)
(* scan(root) on trees that hold symbolic links to directories: links to   *)
(* an ancestor (a cycle), a link beside a marker whose name is that of an  *)
(* artifact directory, a link to an artifact directory.  The loop of scan  *)
(* takes the walker's next entry until the walker is exhausted, whence the *)
(* fairness condition.                                                     *)
(***************************************************************************)
MaxLinkEntries == 4

LinkTo(target) == [kind |-> "symlink", len |-> 0, ok |-> TRUE, to |-> target]

LayoutLinks ==
    { Cand(<<"w", "Cargo.toml">>, {Entry("file", 1, TRUE)}),
      Cand(<<"w", "target">>, {Entry("dir", 0, TRUE), LinkTo(W), LinkTo(<<"w", "app">>)}),
      Cand(<<"w", "app">>, D),
      Cand(<<"w", "app", "package.json">>, {Entry("file", 1, TRUE)}),
      Cand(<<"w", "app", "node_modules">>,
           {Entry("dir", 0, TRUE), LinkTo(W), LinkTo(<<"w", "app">>)}),
      Cand(<<"w", "app", "up">>, {LinkTo(W), LinkTo(<<"w", "app">>)}),
      Cand(<<"w", "__pycache__">>, {LinkTo(<<"w", "app">>),
                                    LinkTo(<<"w", "app", "node_modules">>)}) }

\* A recorded target is a directory of the tree.
LinkTrees ==
    {f \in TreesOf(LayoutLinks, MaxLinkEntries) :
       \A p \in DOMAIN f : link_target(f, p).some => IsDir(f, link_target(f, p).val)}

InitLinks ==
    /\ fs \in LinkTrees
    /\ root \in ScanRoots(fs)
    /\ cli = NoCli
    /\ pc = "scan"
    /\ filter = None
    /\ stack = <<>>
    /\ pruned = <<>>
    /\ artifacts = <<>>
    /\ scanned = <<>>
    /\ kept = <<>>
    /\ sizes = <<>>
    /\ probe = ""
    /\ verdict = FALSE
    /\ out = <<>>
    /\ results = <<>>
    /\ removed = {}
    /\ running = {}
    /\ earlier = None
    /\ response = None
    /\ returned = None

SpecLinks == InitLinks /\ [][NextScan]_vars /\ WF_vars(NextScan)


(***************************************************************************)
(* globset, as filter.rs uses it: Glob::new parses a pattern into tokens   *)
(* and a path matches when the whole of it matches the token sequence.     *)
(* The builder's defaults apply (literal_separator is off, so * and ?      *)
(* also match '/').  Strings are sequences of one-character strings.       *)
(* Patterns are written over letters, digits, '-', '_', '.', '/', '*', '?' *)
(* and '[': a '[' opens a character class, which no character of this      *)
(* alphabet closes, so Glob::new fails on it (an unclosed class).          *)
(***************************************************************************)
Char(s, i) == SubSeq(s, i, i)

contains(s, c) == \E i \in 1..Len(s) : Char(s, i) = c

Tok(t, c) == [t |-> t, c |-> c]

Ok(v) == [ok |-> TRUE, val |-> v]
Err == [ok |-> FALSE]

\* Parser::parse_star at position i (the first '*'): [toks, next].
parse_star(pat, i, toks) ==
    LET prev == IF i = 1 THEN "" ELSE Char(pat, i - 1)
        two == Append(Append(toks, Tok("ZeroOrMore", "")), Tok("ZeroOrMore", ""))
        peek == IF i + 2 <= Len(pat) THEN Char(pat, i + 2) ELSE ""
    IN
    IF ~(i + 1 <= Len(pat) /\ Char(pat, i + 1) = "*")
    THEN [toks |-> Append(toks, Tok("ZeroOrMore", "")), next |-> i + 1]
    ELSE IF toks = <<>> THEN
           IF peek # "" /\ peek # "/" THEN [toks |-> two, next |-> i + 2]
           ELSE [toks |-> <<Tok("RecursivePrefix", "")>>,
                 next |-> IF peek = "/" THEN i + 3 ELSE i + 2]
    ELSE IF prev # "/" THEN [toks |-> two, next |-> i + 2]
    ELSE IF peek # "" /\ peek # "/" THEN [toks |-> two, next |-> i + 2]
    ELSE LET is_suffix == peek = ""
             last == toks[Len(toks)]
             front == SubSeq(toks, 1, Len(toks) - 1)
             nxt == IF is_suffix THEN i + 2 ELSE i + 3
         IN IF last.t \in {"RecursivePrefix", "RecursiveSuffix"}
            THEN [toks |-> toks, next |-> nxt]
            ELSE IF is_suffix
            THEN [toks |-> Append(front, Tok("RecursiveSuffix", "")), next |-> nxt]
            ELSE [toks |-> Append(front, Tok("RecursiveZeroOrMore", "")), next |-> nxt]

\* Parser::parse from position i on: Ok(tokens) or Err.
RECURSIVE parse_from(_, _, _)
parse_from(pat, i, toks) ==
    IF i > Len(pat) THEN Ok(toks)
    ELSE LET c == Char(pat, i) IN
         IF c = "?" THEN parse_from(pat, i + 1, Append(toks, Tok("Any", "")))
         ELSE IF c = "*" THEN LET r == parse_star(pat, i, toks) IN parse_from(pat, r.next, r.toks)
         ELSE IF c = "[" THEN Err
         ELSE parse_from(pat, i + 1, Append(toks, Tok("Literal", c)))

\* Glob::new
Glob_new(pat) == parse_from(pat, 1, <<>>)

\* Whether s from position pos on matches the tokens from k on (the regex
\* globset compiles: ? is ., * is .*, a leading **/ is (?:/?|.*/), a
\* trailing /** is /.*, an inner /**/ is (?:/|/.*/)).
RECURSIVE glob_match(_, _, _, _)
glob_match(toks, k, s, pos) ==
    IF k > Len(toks) THEN pos = Len(s) + 1
    ELSE LET t == toks[k].t IN
      CASE t = "Literal" ->
             pos <= Len(s) /\ Char(s, pos) = toks[k].c /\ glob_match(toks, k + 1, s, pos + 1)
        [] t = "Any" -> pos <= Len(s) /\ glob_match(toks, k + 1, s, pos + 1)
        [] t = "ZeroOrMore" -> \E q \in pos..(Len(s) + 1) : glob_match(toks, k + 1, s, q)
        [] t = "RecursivePrefix" ->
             \/ glob_match(toks, k + 1, s, pos)
             \/ \E q \in pos..Len(s) : Char(s, q) = "/" /\ glob_match(toks, k + 1, s, q + 1)
        [] t = "RecursiveSuffix" ->
             /\ pos <= Len(s) /\ Char(s, pos) = "/"
             /\ \E q \in (pos + 1)..(Len(s) + 1) : glob_match(toks, k + 1, s, q)
        [] t = "RecursiveZeroOrMore" ->
             /\ pos <= Len(s) /\ Char(s, pos) = "/"
             /\ \/ glob_match(toks, k + 1, s, pos + 1)
                \/ \E q \in (pos + 1)..Len(s) :
                     Char(s, q) = "/" /\ glob_match(toks, k + 1, s, q + 1)

\* GlobSet::is_match on a path given as its string.
is_match(globs, s) == \E g \in 1..Len(globs) : glob_match(globs[g], 1, s, 1)

\* The string of a relative path: its components joined by '/'.
RECURSIVE display(_)
display(rel) ==
    IF rel = <<>> THEN ""
    ELSE IF Len(rel) = 1 THEN rel[1]
    ELSE rel[1] \o "/" \o display(Tail(rel))

(***************************************************************************)
(* filter.rs                                                               *)
(***************************************************************************)
\* The globs one pattern contributes to the builder: Ok(<<glob, ...>>) or Err.
globs_of_leaf_only(pat) ==
    IF contains(pat, "/")
    THEN LET g == Glob_new(pat) IN IF g.ok THEN Ok(<<g.val>>) ELSE Err
    ELSE LET g == Glob_new("**/" \o pat) IN IF g.ok THEN Ok(<<g.val>>) ELSE Err

globs_of(pat) ==
    IF contains(pat, "/")
    THEN LET g == Glob_new(pat) IN IF g.ok THEN Ok(<<g.val>>) ELSE Err
    ELSE LET leaf == Glob_new("**/" \o pat)
             anc == Glob_new("**/" \o pat \o "/**")
         IN IF leaf.ok /\ anc.ok THEN Ok(<<leaf.val, anc.val>>) ELSE Err

RECURSIVE build_from(_, _, _)
build_from(patterns, i, acc) ==
    IF i > Len(patterns) THEN Ok(acc)
    ELSE LET g == globs_of(patterns[i]) IN
         IF ~g.ok THEN Err ELSE build_from(patterns, i + 1, acc \o g.val)

build_glob_set(patterns) == build_from(patterns, 1, <<>>)

\* ArtifactFilter::new: Ok([includes, excludes]) or Err(PatternError).
ArtifactFilter_new_excludes_unchecked(include_patterns, exclude_patterns) ==
    LET inc == build_glob_set(include_patterns)
        exc == build_glob_set(exclude_patterns)
    IN IF include_patterns # <<>> /\ ~inc.ok THEN Err
       ELSE Ok([includes |-> IF include_patterns = <<>> THEN None ELSE Some(inc.val),
                excludes |-> IF exc.ok THEN exc.val ELSE <<>>])

ArtifactFilter_new(include_patterns, exclude_patterns) ==
    LET inc == build_glob_set(include_patterns)
        exc == build_glob_set(exclude_patterns)
    IN IF include_patterns # <<>> /\ ~inc.ok THEN Err
       ELSE IF ~exc.ok THEN Err
       ELSE Ok([includes |-> IF include_patterns = <<>> THEN None ELSE Some(inc.val),
                excludes |-> exc.val])

\* ArtifactFilter::matches on the string of a relative path.
matches_include_first(flt, s) ==
    IF flt.includes.some /\ is_match(flt.includes.val, s) THEN TRUE
    ELSE IF is_match(flt.excludes, s) THEN FALSE
    ELSE ~flt.includes.some

matches(flt, s) ==
    IF is_match(flt.excludes, s) THEN FALSE
    ELSE IF ~flt.includes.some THEN TRUE
    ELSE is_match(flt.includes.val, s)

\* The path apply hands to matches: relative to root, or the path itself
\* when it does not lie under root (unwrap_or(&a.path)).
relative_to_unstripped(rootPath, path) == "/" \o display(path)

relative_to(rootPath, path) ==
    LET rel == strip_prefix(path, rootPath) IN
    IF rel.some THEN display(rel.val) ELSE "/" \o display(path)

\* ArtifactFilter::apply
RECURSIVE apply(_, _, _)
apply(flt, rootPath, list) ==
    IF list = <<>> THEN <<>>
    ELSE LET rest == apply(flt, rootPath, Tail(list)) IN
         IF matches(flt, relative_to(rootPath, Head(list).path))
         THEN <<Head(list)>> \o rest
         ELSE rest

(***************************************************************************)
(* size.rs                                                                 *)
(***************************************************************************)
is_hidden(name) == Len(name) > 0 /\ Char(name, 1) = "."

\* The sum jwalk's serial walk from path feeds to sum(): every entry the
\* walk yields Ok that is a regular file gives its metadata's len, or 0 if
\* the metadata cannot be read; a directory that cannot be read yields an
\* Err and none of its entries; a symbolic link is yielded, not followed.
RECURSIVE walk_size(_, _, _), sum_entries(_, _, _)
walk_size(f, path, skip_hidden) ==
    IF path \notin DOMAIN f THEN 0
    ELSE CASE f[path].kind = "file" -> IF f[path].ok THEN f[path].len ELSE 0
           [] f[path].kind = "symlink" -> 0
           [] f[path].kind = "dir" ->
                IF ~f[path].ok THEN 0
                ELSE sum_entries(f,
                       {c \in Children(f, path) : ~(skip_hidden /\ is_hidden(c[Len(c)]))},
                       skip_hidden)

sum_entries(f, entries, skip_hidden) ==
    IF entries = {} THEN 0
    ELSE LET e == CHOOSE x \in entries : TRUE IN
         walk_size(f, e, skip_hidden) + sum_entries(f, entries \ {e}, skip_hidden)

dir_size_skip_hidden(f, path) == walk_size(f, path, TRUE)

dir_size(f, path) == walk_size(f, path, FALSE)

\* compute_sizes, lines 20-22: the sizes zipped onto the artifacts.
assign_sizes_drop_empty(list, computed) ==
    LET all == [i \in 1..Len(list) |-> [list[i] EXCEPT !.size_bytes = computed[i].val]]
    IN SelectSeq(all, LAMBDA a : a.size_bytes > 0)

assign_sizes_reversed(list, computed) ==
    [i \in 1..Len(list) |->
       [list[i] EXCEPT !.size_bytes = computed[Len(list) + 1 - i].val]]

assign_sizes(list, computed) ==
    [i \in 1..Len(list) |-> [list[i] EXCEPT !.size_bytes = computed[i].val]]

Pending(list) == [i \in 1..Len(list) |-> None]

\* The workers of rayon's global pool that par_iter runs the tasks on.
PoolSize == 2

\* What one task returns for its artifact, with idle workers left in the
\* pool: the walk is serial, in the task's own worker, whatever the pool
\* has left (Parallelism::Serial).
task_size_pool_walk(f, path, idle) == IF idle > 0 THEN dir_size(f, path) ELSE 0

task_size(f, path, idle) == dir_size(f, path)

\* A running task can finish: a serial walk waits for no other worker.
task_ready_needs_worker(idle) == idle > 0

task_ready(idle) == TRUE

SizeFrame ==
    UNCHANGED <<fs, root, cli, filter, stack, pruned, scanned, kept, probe, verdict,
                out, results, removed, earlier, response, returned>>

\* A worker of the pool takes the task of one artifact, in any order.
SizeTaskStart ==
    /\ pc = "sizes"
    /\ Cardinality(running) < PoolSize
    /\ \E i \in 1..Len(artifacts) :
         /\ ~sizes[i].some
         /\ i \notin running
         /\ running' = running \cup {i}
    /\ UNCHANGED <<pc, artifacts, sizes>>
    /\ SizeFrame

\* One task of the par_iter runs to its end: dir_size of its artifact.
SizeTask ==
    /\ pc = "sizes"
    /\ \E i \in running :
         LET idle == PoolSize - Cardinality(running) IN
         /\ task_ready(idle)
         /\ sizes' = [sizes EXCEPT ![i] = Some(task_size(fs, artifacts[i].path, idle))]
         /\ running' = running \ {i}
    /\ UNCHANGED <<pc, artifacts>>
    /\ SizeFrame

\* collect() has every result: the sizes are written to the artifacts.
SizesCollect ==
    /\ pc = "sizes"
    /\ \A i \in 1..Len(artifacts) : sizes[i].some
    /\ artifacts' = assign_sizes(artifacts, sizes)
    /\ pc' = "report"
    /\ UNCHANGED <<sizes, running>>
    /\ SizeFrame

(***************************************************************************)
(* Claims about scan, checked under SpecScan.                              *)
(***************************************************************************)
Paths(list) == {list[k].path : k \in 1..Len(list)}

Reported(p) == \E k \in 1..Len(artifacts) : artifacts[k].path = p

ScanReturned == pc = "apply"

\* At or beneath a directory named .git, counted from the scan root.
UnderGit(p) == \E i \in Len(root)..Len(p) : p[i] = ".git"

\* C1: the artifacts recorded by scan are prefix-disjoint: no two distinct
\* entries of the list have paths of which one is an ancestor of (or equal
\* to) the other, at every point of the walk and in the returned list.
C1_PrefixDisjoint ==
    \A i, j \in 1..Len(artifacts) :
        i # j => ~starts_with(artifacts[i].path, artifacts[j].path)

\* C1's case: scan returned an artifact that has, beneath it, a directory
\* which satisfies a rule itself.
C1_Witness ==
    /\ ScanReturned
    /\ \E p \in DOMAIN fs : \E k \in 1..Len(artifacts) :
         /\ p # artifacts[k].path
         /\ starts_with(p, artifacts[k].path)
         /\ fs[p].kind = "dir"
         /\ try_match(fs, p, p[Len(p)], all_rules).some

\* An entry named as the marker asks is present in directory ref.
MarkerEntryIn(f, ref, marker) ==
    CASE marker.kind = "Always" -> TRUE
      [] marker.kind = "Files" ->
            \E i \in 1..Len(marker.names) : join(ref, marker.names[i]) \in DOMAIN f
      [] marker.kind = "GlobSuffix" ->
            \E c \in Children(f, ref) : ends_with(c[Len(c)], marker.suffix)

\* The directory a rule's marker is looked up in: the grandparent for the
\* vendoring rule, the parent otherwise.
ReferenceDir(path, m) ==
    IF m.rule.build_system = "Ruby/Bundler"
    THEN SubSeq(path, 1, Len(path) - 2)
    ELSE SubSeq(path, 1, Len(path) - 1)

Confirms(f, path, m) ==
    /\ matches_dir(path[Len(path)], m.dir_match)
    /\ MarkerEntryIn(f, ReferenceDir(path, m), m.rule.marker)

\* C2: every reported artifact has a catalog rule whose name pattern matches
\* the directory's name and whose marker is present in the rule's reference
\* directory (or which is unconditional); a directory named build, target
\* or .venv with no marker entry beside it is not reported.
C2_MarkerRequired ==
    /\ \A k \in 1..Len(artifacts) :
         \E i \in 1..Len(all_rules) : Confirms(fs, artifacts[k].path, all_rules[i])
    /\ \A p \in DOMAIN fs :
         ( /\ p[Len(p)] \in {"build", "target", ".venv"}
           /\ \A i \in 1..Len(all_rules) : ~Confirms(fs, p, all_rules[i]) )
         => ~Reported(p)

\* C2's case: scan returned, having visited a directory named build, target
\* or .venv that has no marker beside it, and it reported something else.
C2_Witness ==
    /\ ScanReturned
    /\ artifacts # <<>>
    /\ \E p \in DOMAIN fs :
         /\ fs[p].kind = "dir"
         /\ p[Len(p)] \in {"build", "target", ".venv"}
         /\ ~under_pruned(pruned, p)
         /\ \A i \in 1..Len(all_rules) : ~Confirms(fs, p, all_rules[i])

\* Rule m is satisfied by the directory at path, as try_match decides it.
Satisfies(f, path, m) ==
    /\ matches_dir(path[Len(path)], m.dir_match)
    /\ IF m.rule.build_system = "Ruby/Bundler"
       THEN /\ Len(path) >= 2
            /\ path[Len(path) - 1] = "vendor"
            /\ has_marker(f, SubSeq(path, 1, Len(path) - 2), m.rule.marker)
       ELSE has_marker(f, SubSeq(path, 1, Len(path) - 1), m.rule.marker)

SatisfiedRules(f, path) == {i \in 1..Len(all_rules) : Satisfies(f, path, all_rules[i])}

\* C3: first matching rule wins: each artifact carries the build_system and
\* artifact_dir of the earliest catalog rule its directory satisfies, and a
\* directory yields exactly one artifact.
C3_FirstRuleWins ==
    \A k \in 1..Len(artifacts) :
       LET a == artifacts[k]
           sat == SatisfiedRules(fs, a.path)
       IN /\ sat # {}
          /\ LET first == CHOOSE i \in sat : \A j \in sat : i <= j IN
               /\ a.build_system = all_rules[first].rule.build_system
               /\ a.artifact_dir = all_rules[first].rule.artifact_dir
          /\ \A k2 \in 1..Len(artifacts) : k2 # k => artifacts[k2].path # a.path

\* C3's case: a reported directory satisfies rules of two build systems.
C3_Witness ==
    /\ ScanReturned
    /\ \E k \in 1..Len(artifacts) :
         \E i, j \in SatisfiedRules(fs, artifacts[k].path) :
            all_rules[i].rule.build_system # all_rules[j].rule.build_system

\* C4: when scan has returned, a directory named bundle in the tree is
\* reported as Ruby/Bundler exactly when its parent is named vendor, the
\* grandparent holds an entry named Gemfile, and it lies beneath no reported
\* artifact and not beneath .git; the rule reports nothing that is not
\* named bundle (vendor itself is not reported by it).
C4_BundlerRule ==
    ScanReturned =>
      /\ \A p \in DOMAIN fs :
           (fs[p].kind = "dir" /\ p[Len(p)] = "bundle" /\ starts_with(p, root)) =>
             ( (\E k \in 1..Len(artifacts) :
                  artifacts[k].path = p /\ artifacts[k].build_system = "Ruby/Bundler")
               <=>
               ( /\ p[Len(p) - 1] = "vendor"
                 /\ join(SubSeq(p, 1, Len(p) - 2), "Gemfile") \in DOMAIN fs
                 /\ ~\E k \in 1..Len(artifacts) :
                       artifacts[k].path # p /\ starts_with(p, artifacts[k].path)
                 /\ ~UnderGit(p) ) )
      /\ \A k \in 1..Len(artifacts) :
           artifacts[k].build_system = "Ruby/Bundler" =>
             artifacts[k].path[Len(artifacts[k].path)] = "bundle"

\* C4's case: one tree holds a vendor/bundle that is reported and another
\* directory named bundle that is not.
C4_Witness ==
    /\ ScanReturned
    /\ \E k \in 1..Len(artifacts) : artifacts[k].build_system = "Ruby/Bundler"
    /\ \E p \in DOMAIN fs : fs[p].kind = "dir" /\ p[Len(p)] = "bundle" /\ ~Reported(p)

\* C20: no artifact is reported at or beneath a directory named .git, and
\* the walk never opens such a directory, whatever rule its contents may
\* satisfy and also when the scan root itself is named .git.
C20_GitNeverReported ==
    /\ \A k \in 1..Len(artifacts) : ~UnderGit(artifacts[k].path)
    /\ \A n \in 1..Len(stack) : ~UnderGit(stack[n].dir)

\* C20's case: the scan of a root named .git which holds a directory that
\* satisfies an unconditional rule has returned.
C20_Witness ==
    /\ ScanReturned
    /\ root[Len(root)] = ".git"
    /\ \E p \in DOMAIN fs :
         /\ p # root /\ starts_with(p, root) /\ fs[p].kind = "dir"
         /\ \E i \in SatisfiedRules(fs, p) : all_rules[i].rule.marker.kind = "Always"
    /\ artifacts = <<>>

\* The walker can come to p: p lies at or beneath the root, under
\* directories that can be read, none of them named .git.
Reachable(f, p) ==
    /\ starts_with(p, root)
    /\ ~UnderGit(p)
    /\ \A n \in Len(root)..(Len(p) - 1) :
         LET q == SubSeq(p, 1, n) IN f[q].kind = "dir" /\ f[q].ok

ProperAncestors(p) == {SubSeq(p, 1, n) : n \in Len(root)..(Len(p) - 1)}

\* C19: when scan has returned, every readable directory the walk can come
\* to that is not at or beneath .git, has no reported artifact among its
\* proper ancestors and satisfies a catalog rule is reported; a match stops
\* classification beneath it only, so the siblings of a reported directory
\* are reported as well.
C19_SiblingsStillReported ==
    ScanReturned =>
      \A p \in DOMAIN fs :
         ( /\ fs[p].kind = "dir" /\ fs[p].ok
           /\ Reachable(fs, p)
           /\ \A q \in ProperAncestors(p) : ~Reported(q)
           /\ SatisfiedRules(fs, p) # {} )
         => Reported(p)

\* C19's case: two directories of one project, neither beneath the other,
\* are both reported.
C19_Witness ==
    /\ ScanReturned
    /\ \E i, j \in 1..Len(artifacts) :
         /\ i # j
         /\ parent(artifacts[i].path) = parent(artifacts[j].path)

\* The artifacts of the part of the tree that can be read: the directories
\* the walker can come to that satisfy a rule, outermost first.
RECURSIVE Located(_, _)
Located(f, p) ==
    /\ f[p].kind = "dir"
    /\ Reachable(f, p)
    /\ SatisfiedRules(f, p) # {}
    /\ \A q \in ProperAncestors(p) : ~Located(f, q)

\* C13: the scan is best-effort: an entry that cannot be read is skipped
\* and the walk goes on (a walk that is not over always has a next entry),
\* and the list scan returns holds exactly the artifacts located in the
\* part of the tree that can be read.
C13_BestEffortScan ==
    /\ (pc = "walk" /\ stack # <<>>) => stack[Len(stack)].rest # {}
    /\ ScanReturned => Paths(artifacts) = {p \in DOMAIN fs : Located(fs, p)}

\* C13's case: the tree holds a directory that cannot be read, with an
\* artifact inside that goes unseen, and scan returned an artifact beside it.
C13_Witness ==
    /\ ScanReturned
    /\ \E u \in DOMAIN fs :
         /\ fs[u].kind = "dir" /\ ~fs[u].ok /\ Reachable(fs, u) /\ ~Reported(u)
         /\ \E c \in Children(fs, u) : SatisfiedRules(fs, c) # {} /\ ~Reported(c)
         /\ \E k \in 1..Len(artifacts) : parent(artifacts[k].path) = parent(u)

Triples(list) ==
    {<<list[k].path, list[k].build_system, list[k].artifact_dir>> : k \in 1..Len(list)}

\* C12: two scans of the same unmodified tree return the same set of
\* (path, build_system, artifact_dir) triples, in whatever order each of
\* them visits the entries of a directory.
C12_ScanIdempotent ==
    (ScanReturned /\ earlier.some) => Triples(artifacts) = Triples(earlier.val)

\* C12's case: the second scan returned the artifacts of the first in
\* another order.
C12_Witness ==
    /\ ScanReturned
    /\ earlier.some
    /\ artifacts # earlier.val
    /\ Len(artifacts) >= 2

\* No component of the path is a symbolic link: it names an entry of the
\* tree by its canonical path.
LinkFree(f, p) ==
    \A k \in 1..Len(p) :
       SubSeq(p, 1, k) \in DOMAIN f /\ f[SubSeq(p, 1, k)].kind # "symlink"

\* The directories the walker has open and the artifacts recorded are
\* reached without passing a link, and none of them is a link.
NoLinkFollowed ==
    /\ \A i \in 1..Len(stack) : LinkFree(fs, stack[i].dir)
    /\ \A k \in 1..Len(artifacts) : LinkFree(fs, artifacts[k].path)

\* C21: the walk never follows symbolic links: a symbolic link to a
\* directory is neither opened nor reported as an artifact, even when its
\* name and the markers beside it satisfy a rule, no directory is reached
\* through a path that passes a link, and the walk of a tree with link
\* cycles ends.
C21_LinksNeverFollowed == [](NoLinkFollowed) /\ <>(ScanReturned)

\* C21's case: scan returned from a tree in which a link points to one of
\* its own ancestors and a link to a directory satisfies a rule by its name
\* and the marker beside it, both links being entries the walk came to.
C21_Witness ==
    /\ ScanReturned
    /\ \E l \in DOMAIN fs :
         /\ link_target(fs, l).some
         /\ starts_with(l, link_target(fs, l).val)
         /\ starts_with(l, root)
         /\ ~under_pruned(pruned, l)
    /\ \E l \in DOMAIN fs :
         /\ link_target(fs, l).some
         /\ starts_with(l, root)
         /\ ~under_pruned(pruned, l)
         /\ SatisfiedRules(fs, l) # {}

\* A regular file named as the marker asks is present in directory ref.
MarkerFileIn(f, ref, marker) ==
    CASE marker.kind = "Always" -> TRUE
      [] marker.kind = "Files" ->
            \E i \in 1..Len(marker.names) :
               /\ join(ref, marker.names[i]) \in DOMAIN f
               /\ f[join(ref, marker.names[i])].kind = "file"
      [] marker.kind = "GlobSuffix" ->
            \E c \in Children(f, ref) :
               ends_with(c[Len(c)], marker.suffix) /\ f[c].kind = "file"

\* C24: a marker condition is satisfied only by a file in the reference
\* directory: every reported artifact has a rule that matches its name and
\* whose marker is unconditional, or is one of the listed names present as
\* a file, or is a suffix that some file's name ends with; a subdirectory
\* named as a marker does not confirm the rule.
C24_MarkerIsAFile ==
    \A k \in 1..Len(artifacts) :
       \E i \in 1..Len(all_rules) :
          /\ matches_dir(artifacts[k].path[Len(artifacts[k].path)], all_rules[i].dir_match)
          /\ MarkerFileIn(fs, ReferenceDir(artifacts[k].path, all_rules[i]),
                          all_rules[i].rule.marker)

Unconditional(m) == m.rule.marker.kind = "Always"

SameName(a, b) ==
    CASE a.kind = "Exact" -> matches_dir(a.s, b)
      [] b.kind = "Exact" -> matches_dir(b.s, a)
      [] OTHER -> ends_with(a.s, b.s) \/ ends_with(b.s, a.s)

\* The position of the rule an artifact was reported through.
RuleOf(a) ==
    CHOOSE i \in SatisfiedRules(fs, a.path) : \A j \in SatisfiedRules(fs, a.path) : i <= j

C29_RootIsClassified ==
    /\ \A k \in 1..Len(artifacts) : starts_with(artifacts[k].path, root)
    /\ (pc # "scan" /\ SatisfiedRules(fs, root) # {}) =>
         LET first == CHOOSE i \in SatisfiedRules(fs, root) :
                         \A j \in SatisfiedRules(fs, root) : i <= j
         IN artifacts = <<Artifact(root, all_rules[first].rule.build_system,
                                   all_rules[first].rule.artifact_dir, 0)>>

\* C29's case: scan returned from a root that satisfies a marker-requiring
\* rule through an entry of its parent, and that holds a directory which
\* satisfies a rule too.
C29_Witness ==
    /\ ScanReturned
    /\ Reported(root)
    /\ ~Unconditional(all_rules[RuleOf(artifacts[1])])
    /\ \E d \in DOMAIN fs :
         /\ d # root /\ starts_with(d, root)
         /\ fs[d].kind = "dir"
         /\ SatisfiedRules(fs, d) # {}

(***************************************************************************)
(* ArtifactFilter::new followed by matches, on bounded pattern lists and   *)
(* relative paths (the calls filter.rs's tests make).                      *)
(***************************************************************************)
MaxPatterns == 2

PatternPool ==
    {"node_modules", "target", "my-*", "proj?", "app/node_modules", "[x", "my*target"}

ProbePool ==
    {"app/node_modules", "other/node_modules", "app/node_modules/pkg", "node_modules",
     "my-app/target", "projA/target", "project/target", "x/app/node_modules"}

Seqs(S, n) == UNION {[1..k -> S] : k \in 0..n}

InitFilter ==
    /\ \E inc \in Seqs(PatternPool, MaxPatterns) :
       \E exc \in Seqs(PatternPool, MaxPatterns) :
         /\ Len(inc) + Len(exc) <= MaxPatterns
         /\ cli = Cli(W, FALSE, FALSE, inc, exc)
    /\ probe \in ProbePool
    /\ verdict = FALSE
    /\ pc = "filter_new"
    /\ filter = None
    /\ fs = <<>>
    /\ root = W
    /\ stack = <<>>
    /\ pruned = <<>>
    /\ artifacts = <<>>
    /\ scanned = <<>>
    /\ kept = <<>>
    /\ sizes = <<>>
    /\ out = <<>>
    /\ results = <<>>
    /\ removed = {}
    /\ running = {}
    /\ earlier = None
    /\ response = None
    /\ returned = None

FilterFrame ==
    UNCHANGED <<fs, root, cli, stack, pruned, artifacts, scanned, kept, sizes, probe,
                out, results, removed, running, earlier, response, returned>>

\* ArtifactFilter::new(include, exclude): Ok(filter), or Err and no filter.
FilterNew ==
    /\ pc = "filter_new"
    /\ LET made == ArtifactFilter_new(cli.include, cli.exclude) IN
         /\ filter' = IF made.ok THEN Some(made.val) ELSE None
         /\ pc' = IF made.ok THEN "matches" ELSE "pattern_error"
    /\ verdict' = verdict
    /\ FilterFrame

\* filter.matches(probe)
FilterMatches ==
    /\ pc = "matches"
    /\ verdict' = matches(filter.val, probe)
    /\ pc' = "matched"
    /\ filter' = filter
    /\ FilterFrame

NextFilter == FilterNew \/ FilterMatches

SpecFilter == InitFilter /\ [][NextFilter]_vars

(***************************************************************************)
(* Claims about the filter, checked under SpecFilter.                      *)
(***************************************************************************)
\* The path matches the globs that the one pattern pat compiles to.
PatternMatches(pat, s) == LET g == build_glob_set(<<pat>>) IN g.ok /\ is_match(g.val, s)

AnyMatches(patterns, s) == \E i \in 1..Len(patterns) : PatternMatches(patterns[i], s)

\* C5: matches(path) is true exactly when path matches no exclude pattern
\* and, if include patterns were given, at least one of them; a path that
\* matches both an include and an exclude pattern is removed.
C5_ExcludeThenInclude ==
    pc = "matched" =>
      ( verdict <=> ( /\ ~AnyMatches(cli.exclude, probe)
                      /\ (cli.include = <<>> \/ AnyMatches(cli.include, probe)) ) )

\* C5's case: the path matches an include and an exclude pattern, and
\* matches answered false.
C5_Witness ==
    /\ pc = "matched"
    /\ AnyMatches(cli.include, probe)
    /\ AnyMatches(cli.exclude, probe)
    /\ ~verdict

\* The segments of a path string: the pieces between '/'.
RECURSIVE segments_from(_, _, _)
segments_from(s, i, cur) ==
    IF i > Len(s) THEN <<cur>>
    ELSE IF Char(s, i) = "/" THEN <<cur>> \o segments_from(s, i + 1, "")
    ELSE segments_from(s, i + 1, cur \o Char(s, i))

Segments(s) == segments_from(s, 1, "")

\* Pattern pat, taken alone as a glob, matches the one segment seg.
SegmentMatches(pat, seg) ==
    LET g == Glob_new(pat) IN g.ok /\ glob_match(g.val, 1, seg, 1)

HasSegment(pat, s) == \E i \in 1..Len(Segments(s)) : SegmentMatches(pat, Segments(s)[i])

Bare(pat) == ~contains(pat, "/")

Literal(pat) == ~contains(pat, "*") /\ ~contains(pat, "?") /\ ~contains(pat, "[")

\* C6: a pattern without '/' is compiled into **/P and **/P/** and a pattern
\* with '/' into itself alone; so a bare exclude pattern removes every path
\* one of whose segments (the last or an earlier one) it matches, a bare
\* include pattern alone admits every such path, and a literal pattern with
\* '/' alone admits exactly the path equal to it.
C6_PatternExpansion ==
    pc = "matched" =>
      /\ \A i \in 1..Len(cli.exclude) :
           (Bare(cli.exclude[i]) /\ HasSegment(cli.exclude[i], probe)) => ~verdict
      /\ (cli.exclude = <<>> /\ Len(cli.include) = 1) =>
           LET pat == cli.include[1] IN
             /\ filter.val.includes.val =
                  IF Bare(pat)
                  THEN <<Glob_new("**/" \o pat).val, Glob_new("**/" \o pat \o "/**").val>>
                  ELSE <<Glob_new(pat).val>>
             /\ (Bare(pat) /\ HasSegment(pat, probe)) => verdict
             /\ (~Bare(pat) /\ Literal(pat)) => (verdict <=> probe = pat)

\* C6's case: a bare literal exclude pattern names a segment of the path
\* that is not its last one (a/X/b), and the path was removed.
C6_Witness ==
    /\ pc = "matched"
    /\ ~verdict
    /\ \E i \in 1..Len(cli.exclude) :
         LET pat == cli.exclude[i]
             segs == Segments(probe)
         IN /\ Bare(pat) /\ Literal(pat)
            /\ \E k \in 1..(Len(segs) - 1) : segs[k] = pat
            /\ segs[Len(segs)] # pat

\* C26: a bare pattern matches a relative path only through one whole
\* segment: the path is matched if and only if the pattern matches its
\* last segment or one of its earlier segments; a wildcard never spans a
\* path separator (my*target does not match my-app/target).  Stated of a
\* filter made of one bare pattern, as an include or as an exclude.
C26_BareMatchesWholeSegment ==
    pc = "matched" =>
      /\ (cli.exclude = <<>> /\ Len(cli.include) = 1 /\ Bare(cli.include[1])) =>
           (verdict <=> HasSegment(cli.include[1], probe))
      /\ (cli.include = <<>> /\ Len(cli.exclude) = 1 /\ Bare(cli.exclude[1])) =>
           (~verdict <=> HasSegment(cli.exclude[1], probe))

(***************************************************************************)
(* ArtifactFilter::new then apply on hand-built lists (the calls           *)
(* filter.rs's tests make): artifacts under the root, at the root's own    *)
(* level and outside it, with sizes already set.                           *)
(***************************************************************************)
MaxList == 3

ApplyPatterns == {"target", "my-*", "app/node_modules", "[x"}

ApplyRoots == {W, <<"w", "my-app">>}

ApplyPool ==
    { Artifact(<<"w", "my-app", "target">>, "Rust/Cargo", "target", 3),
      Artifact(<<"w", "my-app", "node_modules">>, "Node.js", "node_modules", 0),
      Artifact(<<"w", "app", "node_modules">>, "Node.js", "node_modules", 5),
      Artifact(<<"o", "target">>, "Rust/Cargo", "target", 1) }

InitApply ==
    /\ \E inc \in Seqs(ApplyPatterns, MaxPatterns) :
       \E exc \in Seqs(ApplyPatterns, MaxPatterns) :
         /\ Len(inc) + Len(exc) <= MaxPatterns
         /\ cli = Cli(W, FALSE, FALSE, inc, exc)
    /\ root \in ApplyRoots
    /\ artifacts \in Seqs(ApplyPool, MaxList)
    /\ scanned = artifacts
    /\ pc = "filter_new"
    /\ filter = None
    /\ probe = ""
    /\ verdict = FALSE
    /\ fs = <<>>
    /\ stack = <<>>
    /\ pruned = <<>>
    /\ kept = <<>>
    /\ sizes = <<>>
    /\ out = <<>>
    /\ results = <<>>
    /\ removed = {}
    /\ running = {}
    /\ earlier = None
    /\ response = None
    /\ returned = None

\* filter.apply(root, artifacts)
FilterApply ==
    /\ pc = "matches"
    /\ artifacts' = apply(filter.val, root, artifacts)
    /\ kept' = artifacts'
    /\ pc' = "applied"
    /\ UNCHANGED <<fs, root, cli, filter, stack, pruned, scanned, sizes, probe, verdict,
                   out, results, removed, running, earlier, response, returned>>

NextApply == FilterNew \/ FilterApply

SpecApply == InitApply /\ [][NextApply]_vars

(***************************************************************************)
(* Claims about apply, checked under SpecApply.                            *)
(***************************************************************************)
\* The string of path relative to base; of the whole path when it does not
\* lie under base, the one case in which apply has no relative path.
RelString(base, path) ==
    IF starts_with(path, base)
    THEN display(SubSeq(path, Len(base) + 1, Len(path)))
    ELSE "/" \o display(path)

\* The positions of the input list whose artifact the filter admits.
Admitted == {i \in 1..Len(scanned) : matches(filter.val, RelString(root, scanned[i].path))}

\* The k-th position of a set of positions, in increasing order.
Nth(positions, k) == CHOOSE i \in positions : Cardinality({j \in positions : j < i}) = k - 1

\* C7: apply returns a subsequence of its input: the artifacts whose path
\* relative to root satisfies matches, all of them and no other, in the
\* order of the input, each unchanged in path, label, directory name and
\* size.
C7_ApplyIsSubsequence ==
    pc = "applied" =>
      /\ Len(artifacts) = Cardinality(Admitted)
      /\ \A k \in 1..Len(artifacts) : artifacts[k] = scanned[Nth(Admitted, k)]

\* C7's case: apply removed an artifact from between two that it kept, one
\* of them with a size already set, under a root that is not the parent of
\* every artifact.
C7_Witness ==
    /\ pc = "applied"
    /\ Len(scanned) = 3 /\ Admitted = {1, 3}
    /\ Len(artifacts) = 2
    /\ artifacts[1].size_bytes > 0
    /\ \E i \in 1..3 : ~starts_with(scanned[i].path, root)

(***************************************************************************)
(* compute_sizes on hand-built artifact lists over bounded trees (the      *)
(* calls size.rs's tests make): files of 1..MaxLen bytes, files whose      *)
(* metadata cannot be read, directories that cannot be read, hidden files  *)
(* and symbolic links.                                                     *)
(***************************************************************************)
MaxLen == 2
MaxSizeEntries == 5

FileAny == {Entry("file", n, TRUE) : n \in 1..MaxLen} \cup {Entry("file", MaxLen, FALSE)}
DirAny == {Entry("dir", 0, TRUE), Entry("dir", 0, FALSE)}
\* A link to something of MaxLen bytes.
Link == {Entry("symlink", MaxLen, TRUE)}

SizeLayout ==
    { Cand(<<"w", "target">>, DirAny),
      Cand(<<"w", "target", "a.o">>, FileAny),
      Cand(<<"w", "target", ".fingerprint">>, FileAny),
      Cand(<<"w", "target", "debug">>, DirAny),
      Cand(<<"w", "target", "debug", "app">>, FileAny),
      Cand(<<"w", "target", "link">>, Link),
      Cand(<<"w", "node_modules">>, D),
      Cand(<<"w", "node_modules", "index.js">>, {Entry("file", 1, TRUE)}),
      Cand(<<"w", "bin">>, D), Cand(<<"w", "obj">>, D) }

SizeTrees == TreesOf(SizeLayout, MaxSizeEntries)

ArtifactDirs ==
    { Artifact(<<"w", "target">>, "Rust/Cargo", "target", 0),
      Artifact(<<"w", "node_modules">>, "Node.js", "node_modules", 0),
      Artifact(<<"w", "bin">>, ".NET/C#", "bin", 0),
      Artifact(<<"w", "obj">>, ".NET/C#", "obj", 0) }

\* The lists without repetition of the artifacts whose directory is in f.
ListsOver(f) ==
    LET present == {a \in ArtifactDirs : a.path \in DOMAIN f} IN
    {l \in Seqs(present, Cardinality(present)) :
       \A i, j \in 1..Len(l) : i # j => l[i] # l[j]}

InitSize ==
    /\ fs \in SizeTrees
    /\ artifacts \in ListsOver(fs)
    /\ artifacts # <<>>
    /\ kept = artifacts
    /\ sizes = Pending(artifacts)
    /\ pc = "sizes"
    /\ root = W
    /\ cli = NoCli
    /\ filter = None
    /\ stack = <<>>
    /\ pruned = <<>>
    /\ scanned = <<>>
    /\ probe = ""
    /\ verdict = FALSE
    /\ out = <<>>
    /\ results = <<>>
    /\ removed = {}
    /\ running = {}
    /\ earlier = None
    /\ response = None
    /\ returned = None

NextSize == SizeTaskStart \/ SizeTask \/ SizesCollect

SpecSize == InitSize /\ [][NextSize]_vars

(***************************************************************************)
(* Claims about compute_sizes, checked under SpecSize.                     *)
(***************************************************************************)
SizesReturned == pc = "report"

\* C8: compute_sizes changes only size_bytes: the list it leaves has the
\* length and order of the list it was given, each artifact with the same
\* path, build_system and artifact_dir; until the results are collected the
\* list is untouched.
C8_OnlySizeChanges ==
    /\ pc = "sizes" => artifacts = kept
    /\ SizesReturned =>
         /\ Len(artifacts) = Len(kept)
         /\ \A i \in 1..Len(kept) :
              /\ artifacts[i].path = kept[i].path
              /\ artifacts[i].build_system = kept[i].build_system
              /\ artifacts[i].artifact_dir = kept[i].artifact_dir

\* C8's case: compute_sizes returned on a list of several artifacts, one of
\* them of size zero, and changed a size.
C8_Witness ==
    /\ SizesReturned
    /\ Len(kept) >= 2
    /\ artifacts # kept
    /\ \E i \in 1..Len(sizes) : sizes[i].val = 0

\* The regular files the walk from base can read: beneath base, with
\* readable metadata, under readable directories only (no link in between).
VisibleFiles(f, base) ==
    {p \in DOMAIN f :
       /\ Len(p) > Len(base) /\ starts_with(p, base)
       /\ f[p].kind = "file" /\ f[p].ok
       /\ \A n \in Len(base)..(Len(p) - 1) :
            LET q == SubSeq(p, 1, n) IN q \in DOMAIN f /\ f[q].kind = "dir" /\ f[q].ok}

RECURSIVE TotalLen(_, _)
TotalLen(f, paths) ==
    IF paths = {} THEN 0
    ELSE LET p == CHOOSE x \in paths : TRUE IN f[p].len + TotalLen(f, paths \ {p})

\* C10: after compute_sizes each artifact's size_bytes is the sum of the
\* lengths of the regular files at any depth beneath its path, hidden ones
\* included; symbolic links, files whose metadata cannot be read and
\* directories that cannot be read add nothing, and do not stop the rest of
\* the subtree or the other artifacts from being counted.
C10_SizeIsSumOfFiles ==
    SizesReturned =>
      \A i \in 1..Len(artifacts) :
         artifacts[i].size_bytes = TotalLen(fs, VisibleFiles(fs, artifacts[i].path))

\* C10's case: an artifact with a hidden file that is counted, beside a
\* symbolic link and an entry that cannot be read.
C10_Witness ==
    /\ SizesReturned
    /\ \E i \in 1..Len(artifacts) :
         LET base == artifacts[i].path
             below == {p \in DOMAIN fs : Len(p) > Len(base) /\ starts_with(p, base)}
         IN /\ artifacts[i].size_bytes > 0
            /\ \E p \in VisibleFiles(fs, base) : is_hidden(p[Len(p)])
            /\ \E p \in below : fs[p].kind = "symlink"
            /\ \E p \in below : ~fs[p].ok

\* The subtree of base holds a regular file that is not empty and can be read.
HoldsData(f, base) == \E p \in VisibleFiles(f, base) : f[p].len > 0

\* C11: with more artifacts than the pool has workers, under every
\* interleaving of the tasks, compute_sizes gives each artifact the size a
\* serial walk of its subtree gives, and no artifact whose subtree holds a
\* non-empty regular file ends with size_bytes = 0.
C11_NoZeroUnderLoad ==
    SizesReturned =>
      \A i \in 1..Len(artifacts) :
         /\ artifacts[i].size_bytes = walk_size(fs, kept[i].path, FALSE)
         /\ HoldsData(fs, kept[i].path) => artifacts[i].size_bytes # 0

\* C11's case: compute_sizes returned on more artifacts than the pool has
\* workers, the last of them one that holds data.
C11_Witness ==
    /\ SizesReturned
    /\ Len(artifacts) > PoolSize
    /\ HoldsData(fs, artifacts[Len(artifacts)].path)
    /\ artifacts[Len(artifacts)].size_bytes > 0

\* The pool runs its tasks: a worker that can take or end a task does so.
InitSizeFair == InitSize /\ Cardinality(DOMAIN fs) <= MaxSizeEntries

SpecSizeFair == InitSizeFair /\ [][NextSize]_vars /\ WF_vars(NextSize)

\* C17: compute_sizes always terminates, for any number of artifacts, more
\* than the pool has workers included, and it returns only after every task
\* has ended: no task waits for another worker of the pool.
C17_SizesTerminate ==
    /\ <>SizesReturned
    /\ [](SizesReturned => (running = {} /\ \A i \in 1..Len(sizes) : sizes[i].some))

\* C17's case: compute_sizes returned on more artifacts than the pool has
\* workers, one of them with a directory inside to walk.
C17_Witness ==
    /\ SizesReturned
    /\ Len(artifacts) > PoolSize
    /\ \E i \in 1..Len(artifacts) : \E p \in DOMAIN fs :
         Len(p) > Len(artifacts[i].path) /\ starts_with(p, artifacts[i].path)
         /\ fs[p].kind = "dir"

\* C18: under every completion order of the tasks, artifact i receives the
\* size computed for its own path; no task writes to an artifact: the sizes
\* are written once, together, when every task has ended, and a task's
\* result is recorded once, in its own place.
C18_SizesAttachedInPlace ==
    /\ [][ /\ artifacts' # artifacts => (pc = "sizes" /\ pc' = "report")
           /\ \A i \in 1..Len(sizes) :
                 (i <= Len(sizes') /\ sizes[i].some) => sizes'[i] = sizes[i]
           /\ \A i \in 1..Len(sizes) :
                 (i <= Len(sizes') /\ sizes'[i] # sizes[i]) =>
                    /\ i \in running
                    /\ sizes'[i] = Some(TotalLen(fs, VisibleFiles(fs, kept[i].path)))
                    /\ \A j \in 1..Len(sizes) : j # i => sizes'[j] = sizes[j] ]_vars
    /\ [](SizesReturned =>
            \A i \in 1..Len(artifacts) :
               /\ artifacts[i].path = kept[i].path
               /\ artifacts[i].size_bytes = sizes[i].val
               /\ sizes[i].val = TotalLen(fs, VisibleFiles(fs, kept[i].path)))

\* C18's case: compute_sizes returned on artifacts of different sizes, none
\* of them zero, the larger one earlier in the list.
C18_Witness ==
    /\ SizesReturned
    /\ \E i, j \in 1..Len(artifacts) :
         i < j /\ artifacts[i].size_bytes > artifacts[j].size_bytes
         /\ artifacts[j].size_bytes > 0

(***************************************************************************)
(* delete.rs                                                               *)
(***************************************************************************)
Whitespace == {" ", "\t", "\n", "\r"}

\* str::trim
RECURSIVE trim_start(_), trim_end(_)
trim_start(s) ==
    IF s # "" /\ Char(s, 1) \in Whitespace THEN trim_start(SubSeq(s, 2, Len(s))) ELSE s

trim_end(s) ==
    IF s # "" /\ Char(s, Len(s)) \in Whitespace THEN trim_end(SubSeq(s, 1, Len(s) - 1)) ELSE s

trim(s) == trim_end(trim_start(s))

\* str::to_lowercase, on the letters the responses are written with.
lower(c) ==
    CASE c = "Y" -> "y" [] c = "E" -> "e" [] c = "S" -> "s" [] c = "N" -> "n"
      [] c = "O" -> "o" [] OTHER -> c

RECURSIVE to_lowercase(_)
to_lowercase(s) ==
    IF s = "" THEN "" ELSE lower(Char(s, 1)) \o to_lowercase(SubSeq(s, 2, Len(s)))

\* confirm_and_delete, lines 41-44: the response confirms the deletion.
confirmed_starts_with_y(line) ==
    LET r == to_lowercase(trim(line)) IN r # "" /\ Char(r, 1) = "y"

confirmed(line) ==
    LET r == to_lowercase(trim(line)) IN ~(r # "y" /\ r # "yes")

\* remove_dir_all(path) removes the directory and all that is beneath it.
Subtree_of_parent(f, path) == {p \in DOMAIN f : starts_with(p, parent(path).val)}

Subtree(f, path) == {p \in DOMAIN f : starts_with(p, path)}

Without(f, gone) == [p \in DOMAIN f \ gone |-> f[p]]

\* What remove_dir_all may have removed when it fails: entries beneath path,
\* each with everything beneath it, and not path itself.
PartialRemovals(f, path) ==
    {gone \in SUBSET (Subtree(f, path) \ {path}) :
       \A p \in gone : Subtree(f, p) \subseteq gone}

Line(to, text, n) == [to |-> to, text |-> text, n |-> n]

(***************************************************************************)
(* main.rs: one run of the program.                                        *)
(***************************************************************************)
MainFrame ==
    UNCHANGED <<fs, cli, stack, pruned, scanned, probe, verdict, removed, running, earlier>>

\* cli.path.canonicalize(), lines 27-33
MainCanonicalize ==
    /\ pc = "canonicalize"
    /\ IF exists(fs, cli.path)
       THEN /\ root' = cli.path
            /\ pc' = "new_filter"
            /\ out' = out
       ELSE /\ root' = root
            /\ pc' = "exit_1"
            /\ out' = Append(out, Line("stderr", "Error: cannot access", 0))
    /\ UNCHANGED <<filter, artifacts, kept, sizes, results, response, returned>>
    /\ MainFrame

\* ArtifactFilter::new(&cli.include, &cli.exclude), lines 35-41
MainNewFilter ==
    /\ pc = "new_filter"
    /\ LET made == ArtifactFilter_new(cli.include, cli.exclude) IN
         IF made.ok
         THEN /\ filter' = Some(made.val)
              /\ pc' = "scan"
              /\ out' = out
         ELSE /\ filter' = None
              /\ pc' = "exit_1"
              /\ out' = Append(out, Line("stderr", "Error: invalid filter pattern", 0))
    /\ UNCHANGED <<root, artifacts, kept, sizes, results, response, returned>>
    /\ MainFrame

\* filter.apply(&root, artifacts) and the empty case, lines 47-52
MainApply ==
    /\ pc = "apply"
    /\ artifacts' = apply(filter.val, root, artifacts)
    /\ kept' = artifacts'
    /\ IF artifacts' = <<>>
       THEN /\ out' = Append(out, Line("stdout", "No build artifacts found.", 0))
            /\ pc' = "exit_0"
            /\ sizes' = sizes
       ELSE /\ out' = out
            /\ pc' = "sizes"
            /\ sizes' = Pending(artifacts')
    /\ UNCHANGED <<root, filter, results, response, returned>>
    /\ MainFrame

\* main.rs:65: the run deletes.
wants_delete_or_yes(c) == c.delete \/ c.yes

wants_delete(c) == c.delete

\* print_summary(&mut out, &artifacts, cli.verbose): what it writes, as one
\* record that holds the artifacts it was given.
print_summary_unsized(list) ==
    [to |-> "stdout", text |-> "summary",
     rows |-> [k \in 1..Len(list) |-> [list[k] EXCEPT !.size_bytes = 0]]]

print_summary(list) == [to |-> "stdout", text |-> "summary", rows |-> list]

\* print_summary and the branch on cli.delete, lines 57-77
MainReport ==
    /\ pc = "report"
    /\ LET summary == print_summary(artifacts) IN
         IF wants_delete(cli)
         THEN /\ out' = Append(out, summary)
              /\ pc' = "confirm"
         ELSE /\ out' = out \o <<summary,
                                 Line("stdout", "Run with --delete to remove these artifacts.", 0)>>
              /\ pc' = "exit_0"
    /\ UNCHANGED <<root, filter, artifacts, kept, sizes, results, response, returned>>
    /\ MainFrame

\* What read_line may give: a line with its line end, a last line without
\* one, nothing at the end of input, or an error.
Responses ==
    {"y\n", "Y\n", "yes\n", "YES\n", " Yes \n", "yEs\r\n", "yes", "n\n", "no\n",
     "yes please\n", "y es\n", "ye\n", "yess\n", "\n", ""}

\* artifacts.iter().map(|a| a.size_bytes).sum(): the total that the summary
\* and the prompt show.
RECURSIVE total_bytes(_)
total_bytes(list) ==
    IF list = <<>> THEN 0 ELSE Head(list).size_bytes + total_bytes(Tail(list))

Prompt(list) ==
    [to |-> "stdout", text |-> "Delete targets? [y/N]", n |-> Len(list),
     bytes |-> total_bytes(list)]

\* confirm_and_delete, lines 29-47: the prompt and the response
Confirm ==
    /\ pc = "confirm"
    /\ IF cli.yes
       THEN /\ out' = out
            /\ pc' = "delete"
            /\ results' = Pending(artifacts)
            /\ UNCHANGED <<response, returned>>
       ELSE \/ \E line \in Responses :
                 /\ response' = Some(Ok(line))
                 /\ IF confirmed(line)
                    THEN /\ out' = Append(out, Prompt(artifacts))
                         /\ pc' = "delete"
                         /\ results' = Pending(artifacts)
                         /\ returned' = returned
                    ELSE /\ out' = out \o <<Prompt(artifacts), Line("stdout", "Aborted.", 0)>>
                         /\ pc' = "returned"
                         /\ results' = results
                         /\ returned' = Some(Ok(0))
            \/ /\ response' = Some(Err)
               /\ out' = Append(out, Prompt(artifacts))
               /\ pc' = "returned"
               /\ results' = results
               /\ returned' = Some(Err)
    /\ UNCHANGED <<root, filter, artifacts, kept, sizes>>
    /\ MainFrame

\* One task of the par_iter: delete_artifact of one artifact, in any order;
\* remove_dir_all removes the directory with all beneath it, or fails having
\* removed some of what is beneath it.
DeleteTask ==
    /\ pc = "delete"
    /\ \E i \in 1..Len(artifacts) :
         /\ ~results[i].some
         /\ LET path == artifacts[i].path IN
            \/ /\ exists(fs, path)
               /\ fs' = Without(fs, Subtree(fs, path))
               /\ removed' = removed \cup Subtree(fs, path)
               /\ results' = [results EXCEPT ![i] = Some("Ok")]
            \/ /\ \E gone \in (IF exists(fs, path) THEN PartialRemovals(fs, path) ELSE {{}}) :
                    /\ fs' = Without(fs, gone)
                    /\ removed' = removed \cup gone
               /\ results' = [results EXCEPT ![i] = Some("Err")]
    /\ UNCHANGED <<root, cli, pc, filter, stack, pruned, artifacts, scanned, kept, sizes,
                   probe, verdict, out, running, earlier, response, returned>>

ErrorLine(path) == [to |-> "stdout", text |-> "Error: failed to delete", path |-> path]

\* confirm_and_delete, lines 54-66: the count of the removals that
\* succeeded and the errors of the others, in the order of the list.
RECURSIVE delete_outcome_until_error(_, _)
delete_outcome_until_error(list, res) ==
    IF res = <<>> THEN [deleted |-> 0, errors |-> <<>>]
    ELSE IF Head(res).val = "Ok"
         THEN LET rest == delete_outcome_until_error(Tail(list), Tail(res)) IN
              [deleted |-> 1 + rest.deleted, errors |-> rest.errors]
         ELSE [deleted |-> 0, errors |-> <<ErrorLine(Head(list).path)>>]

RECURSIVE delete_outcome(_, _)
delete_outcome(list, res) ==
    IF res = <<>> THEN [deleted |-> 0, errors |-> <<>>]
    ELSE LET rest == delete_outcome(Tail(list), Tail(res)) IN
         IF Head(res).val = "Ok"
         THEN [deleted |-> 1 + rest.deleted, errors |-> rest.errors]
         ELSE [deleted |-> rest.deleted, errors |-> <<ErrorLine(Head(list).path)>> \o rest.errors]

\* confirm_and_delete, lines 54-77: the count, the error lines, the last
\* line and Ok(deleted)
DeleteCollect ==
    /\ pc = "delete"
    /\ \A i \in 1..Len(artifacts) : results[i].some
    /\ LET o == delete_outcome(artifacts, results)
           errors == IF o.errors = <<>> THEN <<>>
                     ELSE <<Line("stdout", "", 0)>> \o o.errors
       IN /\ out' = out \o errors \o <<Line("stdout", "Deleted", o.deleted)>>
          /\ returned' = Some(Ok(o.deleted))
    /\ pc' = "returned"
    /\ UNCHANGED <<root, filter, artifacts, kept, sizes, results, response>>
    /\ MainFrame

\* main.rs:68-74: Ok(_) ends the run, Err(e) ends it with status 1.
MainExit ==
    /\ pc = "returned"
    /\ IF returned.val.ok
       THEN /\ pc' = "exit_0"
            /\ out' = out
       ELSE /\ pc' = "exit_1"
            /\ out' = Append(out, Line("stderr", "Error during deletion", 0))
    /\ UNCHANGED <<root, filter, artifacts, kept, sizes, results, response, returned>>
    /\ MainFrame

(***************************************************************************)
(* confirm_and_delete on hand-built artifact lists (the calls delete.rs's  *)
(* tests make), with and without skip_confirm (cli.yes).                   *)
(***************************************************************************)
F == {Entry("file", 1, TRUE)}

DeleteLayout ==
    { Cand(<<"w", "target">>, D), Cand(<<"w", "target", "a.o">>, F),
      Cand(<<"w", "target", "debug">>, D), Cand(<<"w", "target", "debug", "app">>, F),
      Cand(<<"w", "node_modules">>, D), Cand(<<"w", "node_modules", "index.js">>, F),
      Cand(<<"w", "bin">>, D), Cand(<<"w", "obj">>, D) }

DeleteTrees == TreesOf(DeleteLayout, MaxSizeEntries)

InitDelete ==
    /\ fs \in DeleteTrees
    /\ artifacts \in ListsOver(fs)
    /\ \E yes \in BOOLEAN : cli = Cli(W, TRUE, yes, <<>>, <<>>)
    /\ pc = "confirm"
    /\ kept = artifacts
    /\ root = W
    /\ filter = None
    /\ stack = <<>>
    /\ pruned = <<>>
    /\ scanned = <<>>
    /\ sizes = <<>>
    /\ probe = ""
    /\ verdict = FALSE
    /\ out = <<>>
    /\ results = <<>>
    /\ removed = {}
    /\ running = {}
    /\ earlier = None
    /\ response = None
    /\ returned = None

NextDelete == Confirm \/ DeleteTask \/ DeleteCollect

SpecDelete == InitDelete /\ [][NextDelete]_vars

(***************************************************************************)
(* Claims about confirm_and_delete, checked under SpecDelete.              *)
(***************************************************************************)
\* confirm_and_delete returned after the removals.
Deleted == pc = "returned" /\ out # <<>> /\ out[Len(out)].text = "Deleted"

Failed == {i \in 1..Len(results) : results[i].val = "Err"}

Succeeded == {i \in 1..Len(results) : results[i].val = "Ok"}

\* C14: a removal that fails does not stop the others: confirm_and_delete
\* attempts every artifact of the list, returns Ok(n) with n the number of
\* removals that succeeded (n plus the failures is the length of the list),
\* and writes one error line naming the path for each failure.
C14_FailuresAreCollected ==
    Deleted =>
      /\ Len(results) = Len(artifacts)
      /\ \A i \in 1..Len(results) : results[i].some
      /\ returned = Some(Ok(Cardinality(Succeeded)))
      /\ Cardinality(Succeeded) + Cardinality(Failed) = Len(artifacts)
      /\ \A i \in Succeeded : artifacts[i].path \notin DOMAIN fs
      /\ \A i \in Failed :
           Cardinality({k \in 1..Len(out) : out[k] = ErrorLine(artifacts[i].path)}) = 1
      /\ Cardinality({k \in 1..Len(out) : out[k].text = "Error: failed to delete"})
           = Cardinality(Failed)

\* C14's case: a removal failed and the removal of an artifact later in the
\* list succeeded.
C14_Witness ==
    /\ Deleted
    /\ \E i \in Failed : \E j \in Succeeded : i < j

Blank(s) == \A i \in 1..Len(s) : Char(s, i) \in {" ", "\t", "\n", "\r"}

YesWords ==
    {"y", "Y"} \cup {a \o b \o c : a \in {"y", "Y"}, b \in {"e", "E"}, c \in {"s", "S"}}

\* The line is y or yes in any letter case, with only white space around it.
Affirmative(line) ==
    \E i, j \in 0..Len(line) :
       /\ i <= j
       /\ Blank(SubSeq(line, 1, i))
       /\ SubSeq(line, i + 1, j) \in YesWords
       /\ Blank(SubSeq(line, j + 1, Len(line)))

LineRead == response.some /\ response.val.ok

\* C15: without skip_confirm, confirm_and_delete removes artifacts only if
\* the line read, trimmed and lower-cased, is exactly y or yes; for any
\* other line read, an empty one and the end of input included, it writes
\* Aborted., returns 0 and leaves every artifact directory in place.  With
\* skip_confirm it reads no input, writes no prompt, and goes on to delete.
C15_ConfirmationGate ==
    /\ ~cli.yes =>
         /\ (pc = "delete" \/ results # <<>> \/ removed # {}) =>
              (LineRead /\ Affirmative(response.val.val))
         /\ (LineRead /\ ~Affirmative(response.val.val)) =>
              /\ pc = "returned"
              /\ returned = Some(Ok(0))
              /\ out = <<Prompt(artifacts), Line("stdout", "Aborted.", 0)>>
              /\ removed = {}
              /\ \A k \in 1..Len(artifacts) : artifacts[k].path \in DOMAIN fs
         /\ (LineRead /\ Affirmative(response.val.val) /\ pc = "returned") => Deleted
    /\ cli.yes =>
         /\ response = None
         /\ \A k \in 1..Len(out) : out[k] # Prompt(artifacts)
         /\ pc \in {"confirm", "delete", "returned"}
         /\ pc = "returned" => Deleted

\* C15's case: asked to confirm the removal of several artifacts, the input
\* was at its end, and confirm_and_delete returned.
C15_Witness ==
    /\ ~cli.yes
    /\ response = Some(Ok(""))
    /\ pc = "returned"
    /\ Len(artifacts) >= 2

(***************************************************************************)
(* The runs: a small workspace of two projects, every flag, filters with   *)
(* and without a malformed pattern.                                        *)
(***************************************************************************)
MaxRunEntries == 7

RunLayout ==
    { Cand(<<"w", "my-app">>, D), Cand(<<"w", "my-app", "Cargo.toml">>, F),
      Cand(<<"w", "my-app", "target">>, D),
      Cand(<<"w", "my-app", "target", "out">>, {Entry("file", MaxLen, TRUE)}),
      Cand(<<"w", "app">>, D), Cand(<<"w", "app", "package.json">>, F),
      Cand(<<"w", "app", "node_modules">>, D),
      Cand(<<"w", "app", "node_modules", "i.js">>, F),
      Cand(<<"w", "app", "node_modules", "__pycache__">>, D),
      Cand(<<"w", "app", "node_modules", "__pycache__", "m.pyc">>, F) }

RunTrees == TreesOf(RunLayout, MaxRunEntries)

\* <<include, exclude>>
RunFilters ==
    { <<<<>>, <<>>>>, <<<<>>, <<"my-*">>>>, <<<<"target">>, <<>>>>,
      <<<<"[x">>, <<>>>>, <<<<>>, <<"[x">>>>, <<<<"target">>, <<"my-*", "[x">>>> }

RunPaths == {W, <<"gone">>}

Init ==
    /\ fs \in RunTrees
    /\ \E path \in RunPaths, delete \in BOOLEAN, yes \in BOOLEAN, flt \in RunFilters :
         cli = Cli(path, delete, yes, flt[1], flt[2])
    /\ root = cli.path
    /\ pc = "canonicalize"
    /\ filter = None
    /\ stack = <<>>
    /\ pruned = <<>>
    /\ artifacts = <<>>
    /\ scanned = <<>>
    /\ kept = <<>>
    /\ sizes = <<>>
    /\ probe = ""
    /\ verdict = FALSE
    /\ out = <<>>
    /\ results = <<>>
    /\ removed = {}
    /\ running = {}
    /\ earlier = None
    /\ response = None
    /\ returned = None

Next ==
    \/ MainCanonicalize
    \/ MainNewFilter
    \/ ScanBegin
    \/ ScanEntry
    \/ ScanEnd
    \/ MainApply
    \/ SizeTaskStart
    \/ SizeTask
    \/ SizesCollect
    \/ MainReport
    \/ Confirm
    \/ DeleteTask
    \/ DeleteCollect
    \/ MainExit

Spec == Init /\ [][Next]_vars

(***************************************************************************)
(* Claims about a run, checked under Spec.                                 *)
(***************************************************************************)
\* The pattern is not a valid glob: it opens a character class that it
\* never closes.
Malformed(pat) == contains(pat, "[") /\ ~contains(pat, "]")

AnyMalformed(patterns) == \E i \in 1..Len(patterns) : Malformed(patterns[i])

\* C9: if an include or an exclude pattern is not a valid glob, building the
\* filter fails with a pattern error and produces no filter; the run raises
\* the error before the scan starts and ends with a failure status: nothing
\* is scanned, filtered, sized or deleted.
C9_InvalidPatternIsFatal ==
    (AnyMalformed(cli.include) \/ AnyMalformed(cli.exclude)) =>
      /\ filter = None
      /\ pc \in {"canonicalize", "new_filter", "exit_1"}
      /\ stack = <<>> /\ pruned = <<>> /\ artifacts = <<>> /\ scanned = <<>>
      /\ kept = <<>> /\ sizes = <<>> /\ results = <<>> /\ removed = {}
      /\ (pc = "exit_1" /\ exists(fs, cli.path)) =>
           out = <<Line("stderr", "Error: invalid filter pattern", 0)>>

\* C9's case: a run asked to delete without confirmation, with a valid
\* include pattern and a malformed exclude pattern, over a tree that holds
\* an artifact, has ended with the pattern error.
C9_Witness ==
    /\ pc = "exit_1"
    /\ out = <<Line("stderr", "Error: invalid filter pattern", 0)>>
    /\ cli.delete /\ cli.yes
    /\ cli.include # <<>> /\ ~AnyMalformed(cli.include)
    /\ AnyMalformed(cli.exclude)
    /\ exists(fs, <<"w", "my-app", "Cargo.toml">>)
    /\ exists(fs, <<"w", "my-app", "target">>)

\* C16: a run without --delete is a dry run: whatever the tree, the filter
\* and the value of --yes, it removes nothing and never comes to the
\* confirmation or to the deletion.
C16_DryRunDeletesNothing ==
    ~cli.delete =>
      /\ removed = {}
      /\ \A k \in 1..Len(artifacts) : artifacts[k].path \in DOMAIN fs
      /\ pc \notin {"confirm", "delete", "returned"}
      /\ results = <<>> /\ response = None /\ returned = None
      /\ \A k \in 1..Len(out) : out[k].text \notin {"Delete targets? [y/N]", "Deleted"}

\* C16's case: a run with --yes and without --delete found artifacts and
\* ended with the dry-run footer.
C16_Witness ==
    /\ pc = "exit_0"
    /\ ~cli.delete /\ cli.yes
    /\ artifacts # <<>>
    /\ out[Len(out)].text = "Run with --delete to remove these artifacts."

\* The stages of a run, in the order main.rs writes them.
StageOf(p) ==
    CASE p \in {"canonicalize", "new_filter"} -> 0
      [] p \in {"scan", "walk"} -> 1
      [] p = "apply" -> 2
      [] p = "sizes" -> 3
      [] p = "report" -> 4
      [] p = "confirm" -> 5
      [] p = "delete" -> 6
      [] p = "returned" -> 7
      [] p \in {"exit_0", "exit_1"} -> 8

SummaryAt(k) ==
    /\ out[k].text = "summary"
    /\ Len(out[k].rows) = Len(kept)
    /\ Len(sizes) = Len(kept)
    /\ \A i \in 1..Len(kept) :
         /\ sizes[i].some
         /\ out[k].rows[i] = [kept[i] EXCEPT !.size_bytes = sizes[i].val]

PromptAt(k) == out[k].text = "Delete targets? [y/N]"

\* The summary of the kept artifacts with their sizes has been written, and
\* nothing was written to stdout before it.
ReportedFirst ==
    /\ cli.delete
    /\ kept # <<>>
    /\ out # <<>>
    /\ SummaryAt(1)
    /\ \A k \in 2..Len(out) : out[k].text # "summary"

\* A step to another stage goes forward, and into the filter, the sizes,
\* the report, the confirmation and the deletion only from the stage before.
StageStep ==
    /\ StageOf(pc') >= StageOf(pc)
    /\ (StageOf(pc') # StageOf(pc) /\ StageOf(pc') \in 2..6) => StageOf(pc') = StageOf(pc) + 1
    /\ fs' # fs => (pc = "delete" /\ \A i \in 1..Len(sizes) : sizes[i].some)

\* C22: in a run with --delete the summary of the surviving artifacts,
\* with their computed sizes, is written before the confirmation prompt
\* and before any directory is removed; the stages run in the order scan,
\* filter, sizes, report, confirm, delete, and nothing is removed before
\* every size is computed.
C22_ReportBeforeDelete ==
    /\ []( ( \/ pc \in {"confirm", "delete", "returned"}
             \/ removed # {}
             \/ results # <<>>
             \/ \E k \in 1..Len(out) : PromptAt(k) )
           => ReportedFirst )
    /\ [][StageStep]_vars

\* C22's case: a run with --delete asked for confirmation, removed
\* artifacts that hold data and ended.
C22_Witness ==
    /\ pc = "exit_0"
    /\ cli.delete /\ ~cli.yes
    /\ removed # {}
    /\ Len(out) = 3
    /\ SummaryAt(1) /\ PromptAt(2) /\ out[3].text = "Deleted"
    /\ \E i \in 1..Len(kept) : sizes[i].val > 0

Prompts == {k \in 1..Len(out) : PromptAt(k)}

\* The artifacts whose path is p or an ancestor of p.
Owners(p) == {k \in 1..Len(artifacts) : starts_with(p, artifacts[k].path)}

\* What one step may do to the confirmation and to the tree: the prompt is
\* written and the response read in the confirmation step only, before any
\* task has run, and what a step removes lies in exactly one task's
\* directory.
ConfirmStep ==
    /\ (Prompts' # Prompts \/ response' # response) =>
         /\ pc = "confirm" /\ ~cli.yes
         /\ Prompts = {} /\ response = None
         /\ results = <<>> /\ removed = {}
    /\ \A p \in removed' \ removed : Cardinality(Owners(p)) = 1

\* C23: in a run the user is asked for confirmation at most once, before
\* any deletion task starts; the paths handed to the concurrent deletion
\* tasks are pairwise non-nested, so that no task removes entries inside a
\* directory another task is deleting.
C23_ConfirmOnceDisjointTasks ==
    /\ []( /\ Cardinality(Prompts) <= 1
           /\ (results # <<>> \/ removed # {}) =>
                (cli.yes \/ (Prompts # {} /\ LineRead))
           /\ pc = "delete" =>
                \A i, j \in 1..Len(artifacts) :
                   i # j => ~starts_with(artifacts[i].path, artifacts[j].path) )
    /\ [][ConfirmStep]_vars

\* C23's case: after one confirmation, one of two deletion tasks has run
\* and the other has not, on a tree where a directory beneath one of the
\* artifacts satisfies a rule itself.
C23_Witness ==
    /\ pc = "delete"
    /\ Cardinality(Prompts) = 1
    /\ Len(artifacts) = 2
    /\ \E i, j \in 1..2 : results[i].some /\ ~results[j].some
    /\ \E k \in 1..2 : \E p \in removed \cup DOMAIN fs :
         /\ p # artifacts[k].path
         /\ starts_with(p, artifacts[k].path)
         /\ p[Len(p)] = "__pycache__"

\* The path is that of a kept artifact or lies beneath one.
InKept(p) == \E k \in 1..Len(kept) : starts_with(p, kept[k].path)

\* The artifact's path relative to the root passes the patterns of the run.
PassesPatterns(a) ==
    /\ ~AnyMatches(cli.exclude, RelString(root, a.path))
    /\ (cli.include = <<>> \/ AnyMatches(cli.include, RelString(root, a.path)))

\* A step leaves in place, unchanged, every entry that is not in a kept
\* artifact's subtree, and creates nothing.
ConfinedStep ==
    /\ DOMAIN fs' \subseteq DOMAIN fs
    /\ \A p \in DOMAIN fs : ~InKept(p) => (p \in DOMAIN fs' /\ fs'[p] = fs[p])

\* C27: deletion is confined to the surviving artifacts: every path a run
\* removes is the path of, or lies beneath, an artifact that the scan
\* reported and the filter kept; excluded or not included artifacts, marker
\* files and every other entry outside those subtrees are left unchanged.
C27_DeletionConfined ==
    /\ []( /\ \A p \in removed : InKept(p)
           /\ \A k \in 1..Len(kept) :
                /\ kept[k].path \in Paths(scanned)
                /\ PassesPatterns(kept[k])
           /\ \A k \in 1..Len(scanned) :
                ~PassesPatterns(scanned[k]) => scanned[k].path \in DOMAIN fs )
    /\ [][ConfinedStep]_vars

\* C27's case: a run with --delete removed an artifact and ended, leaving
\* in place an artifact that an exclude pattern removed from the list,
\* with all beneath it, and the marker files.
C27_Witness ==
    /\ pc = "exit_0"
    /\ cli.delete
    /\ removed # {}
    /\ \E k \in 1..Len(scanned) :
         /\ ~InKept(scanned[k].path)
         /\ \E p \in DOMAIN fs : p # scanned[k].path /\ starts_with(p, scanned[k].path)
    /\ <<"w", "my-app", "Cargo.toml">> \in DOMAIN fs
    /\ <<"w", "app", "package.json">> \in DOMAIN fs

\* The regular files beneath a directory, at any depth.
FilesBeneath(f, base) ==
    {p \in DOMAIN f : Len(p) > Len(base) /\ starts_with(p, base) /\ f[p].kind = "file"}

\* C28: no double counting: over the final artifact list of a run every
\* regular file of the tree adds its length to the size of at most one
\* artifact, so the reported total is the sum of the lengths of the
\* distinct regular files beneath the reported artifact paths.
C28_NoDoubleCounting ==
    pc \in {"report", "confirm"} =>
      /\ \A p \in DOMAIN fs :
           Cardinality({k \in 1..Len(artifacts) : p \in FilesBeneath(fs, artifacts[k].path)}) <= 1
      /\ \A k \in 1..Len(artifacts) :
           artifacts[k].size_bytes = TotalLen(fs, FilesBeneath(fs, artifacts[k].path))
      /\ total_bytes(artifacts) =
           TotalLen(fs, UNION {FilesBeneath(fs, artifacts[k].path) : k \in 1..Len(artifacts)})

\* C28's case: the sizes of a run are computed and one of the artifacts
\* holds a file beneath a directory that satisfies a rule itself.
C28_Witness ==
    /\ pc = "report"
    /\ \E k \in 1..Len(artifacts) : \E d \in DOMAIN fs :
         /\ d # artifacts[k].path
         /\ starts_with(d, artifacts[k].path)
         /\ fs[d].kind = "dir"
         /\ SatisfiedRules(fs, d) # {}
         /\ FilesBeneath(fs, d) # {}
         /\ artifacts[k].size_bytes >= 2

====
